---- MODULE Spec2Model ----
(***************************************************************************)
(* Model of the USDC agentic trader (src/src/agent.js, first snapshot,     *)
(* lines 1-1259) and of the perp venue wrapper it drives.                  *)
(*                                                                         *)
(* Units.  Money is in thousandths of a USDC (0.5 USDC = 500), prices in   *)
(* whole dollars, position sizes in thousandths of a SOL, the 24h change   *)
(* in tenths of a percent, and time in milliseconds.  A fraction such as   *)
(* 0.25 is written as a percentage (25) and applied as (x * 25) \div 100.    *)
(* The value sets are chosen so that these divisions are exact.            *)
(* JavaScript null/undefined is NULL (-1) for numbers and "null" for       *)
(* strings; a missing numeric field of an advisor answer is 0, which every *)
(* `x || default` of the code treats like undefined.                       *)
(***************************************************************************)
EXTENDS Integers, Sequences, FiniteSets, TLC

\* ---------------------------------------------------------------- constants
TRADE_INTERVAL_MS == 120000
MAX_CYCLES == 200
MIN_USDC_TRADE == 500
MAX_USDC_TRADE_PCT == 25
MIN_PERP_SIZE_USD == 1000
MAX_PERP_SIZE_USD == 10000
DEFAULT_LEVERAGE == 2
MIN_POSITION_HOLD_MS == 30 * 60 * 1000
TRADE_COOLDOWN_MS == 10 * 60 * 1000
SPREAD_TOLERANCE_PCT == 3
ORDER_FILL_TIMEOUT_MS == 3 * 60 * 1000

\* ------------------------------------------------------------------- bounds
\* Number of loop iterations explored (stands in for MAX_CYCLES iterations).
MaxCycles == 2
\* Number of backend, file-system and feed outages injected in one run.
MaxFaults == 1

NULL == -1

Min(a, b) == IF a < b THEN a ELSE b
Max(a, b) == IF a > b THEN a ELSE b
Abs(a) == IF a < 0 THEN -a ELSE a
\* JavaScript truthiness of a number-or-null.
Truthy(x) == x # NULL /\ x # 0

\* The loop bound of main(): MAX_CYCLES, cut to the explored number of cycles.
LoopBound == Min(MAX_CYCLES, MaxCycles)

NoPosition == [direction |-> "null", baseAmount |-> 0, unrealizedPnl |-> 0]

Directions == {"LONG", "SHORT"}
Opposite(d) == IF d = "LONG" THEN "SHORT" ELSE "LONG"

\* ------------------------------------------------------- rule-based engine
\* momentum of makeRuleBasedDecision, (recent[2] - recent[0]) / recent[0] * 100,
\* kept as the pair it is compared through: "nan" (0/0), "inf" (x/0, x > 0) or
\* the fraction num/den with den > 0.
Momentum(priceHistory) ==
  LET n == Len(priceHistory) IN
  IF n < 3 THEN [kind |-> "num", num |-> 0, den |-> 1]
  ELSE LET r0 == priceHistory[n - 2]
           r2 == priceHistory[n]
       IN IF r0 = 0
          THEN (IF r2 = 0 THEN [kind |-> "nan", num |-> 0, den |-> 1]
                          ELSE [kind |-> "inf", num |-> 1, den |-> 1])
          ELSE [kind |-> "num", num |-> (r2 - r0) * 100, den |-> r0]

\* momentum < -(k2 / 2) and momentum > k2 / 2, with IEEE comparisons.
MomBelow(m, k2) == m.kind = "num" /\ 2 * m.num < -(k2 * m.den)
MomAbove(m, k2) == m.kind = "inf" \/ (m.kind = "num" /\ 2 * m.num > k2 * m.den)

Decision(a, amt, sz, conf) ==
  [action |-> a, amount |-> amt, size_usd |-> sz, leverage |-> 2, confidence |-> conf]

\* freeCollateral || 10
CollateralOr10(fc) == IF fc = 0 THEN 10000 ELSE fc

\* The treasury fallback with the rebalance taken on the share alone.
TreasuryRulesNoGap(ctx, m) ==
  LET agentBalance == ctx.agentBalance
      treasuryBalance == ctx.treasuryBalance
      total == agentBalance + treasuryBalance
      bearish == ctx.solChange24h < -30 \/ MomBelow(m, 3)
      bullish == ctx.solChange24h > 30 \/ MomAbove(m, 3)
      diff2 == agentBalance - treasuryBalance
  IN
  IF total < MIN_USDC_TRADE * 2 THEN Decision("HOLD", 0, 0, 50)
  ELSE IF bearish /\ agentBalance > MIN_USDC_TRADE
    THEN Decision("ALLOCATE_TO_TREASURY",
                  Max(MIN_USDC_TRADE, Min((agentBalance * 3) \div 10, agentBalance - MIN_USDC_TRADE)),
                  0, 70)
  ELSE IF bullish /\ treasuryBalance > MIN_USDC_TRADE
    THEN Decision("WITHDRAW_FROM_TREASURY",
                  Max(MIN_USDC_TRADE, Min((treasuryBalance * 3) \div 10, treasuryBalance - MIN_USDC_TRADE)),
                  0, 65)
  ELSE IF agentBalance * 10 > 7 * total \/ agentBalance * 10 < 3 * total
    THEN Decision("REBALANCE", Abs(diff2) \div 2, 0, 60)
  ELSE Decision("HOLD", 0, 0, 55)

TreasuryRules(ctx, m) ==
  LET agentBalance == ctx.agentBalance
      treasuryBalance == ctx.treasuryBalance
      total == agentBalance + treasuryBalance
      bearish == ctx.solChange24h < -30 \/ MomBelow(m, 3)
      bullish == ctx.solChange24h > 30 \/ MomAbove(m, 3)
      diff2 == agentBalance - treasuryBalance   \* 2 * (agentBalance - total / 2)
  IN
  IF total < MIN_USDC_TRADE * 2 THEN Decision("HOLD", 0, 0, 50)
  ELSE IF bearish /\ agentBalance > MIN_USDC_TRADE
    THEN Decision("ALLOCATE_TO_TREASURY",
                  Max(MIN_USDC_TRADE, Min((agentBalance * 3) \div 10, agentBalance - MIN_USDC_TRADE)),
                  0, 70)
  ELSE IF bullish /\ treasuryBalance > MIN_USDC_TRADE
    THEN Decision("WITHDRAW_FROM_TREASURY",
                  Max(MIN_USDC_TRADE, Min((treasuryBalance * 3) \div 10, treasuryBalance - MIN_USDC_TRADE)),
                  0, 65)
  ELSE IF (agentBalance * 10 > 7 * total \/ agentBalance * 10 < 3 * total)
          /\ Abs(diff2) > 2 * MIN_USDC_TRADE
    THEN Decision("REBALANCE", Abs(diff2) \div 2, 0, 60)
  ELSE Decision("HOLD", 0, 0, 55)

\* The rule engine with the open rules not looking at the position.
makeRuleBasedDecisionOpensAnyway(ctx) ==
  LET m == Momentum(ctx.priceHistory)
      pos == ctx.driftPosition
      hasPos == pos.direction # "null"
      fc == ctx.freeCollateral
      closeAction == IF pos.direction = "LONG" THEN "CLOSE_LONG" ELSE "CLOSE_SHORT"
  IN
  IF ~ctx.driftAvailable THEN TreasuryRules(ctx, m)
  ELSE IF hasPos /\ pos.direction = "LONG" /\ (ctx.solChange24h < -30 \/ MomBelow(m, 4))
    THEN Decision("CLOSE_LONG", 0, 0, 75)
  ELSE IF hasPos /\ pos.direction = "SHORT" /\ (ctx.solChange24h > 30 \/ MomAbove(m, 4))
    THEN Decision("CLOSE_SHORT", 0, 0, 75)
  ELSE IF hasPos /\ pos.unrealizedPnl * 100 > CollateralOr10(fc) * 8
    THEN Decision(closeAction, 0, 0, 70)
  ELSE IF hasPos /\ pos.unrealizedPnl * 100 < -(CollateralOr10(fc) * 10)
    THEN Decision(closeAction, 0, 0, 65)
  ELSE IF fc >= MIN_PERP_SIZE_USD /\ (ctx.solChange24h < -40 \/ MomBelow(m, 4))
    THEN Decision("OPEN_SHORT", 0, Min(fc \div 2, MAX_PERP_SIZE_USD), 70)
  ELSE IF fc >= MIN_PERP_SIZE_USD /\ (ctx.solChange24h > 40 \/ MomAbove(m, 4))
    THEN Decision("OPEN_LONG", 0, Min(fc \div 2, MAX_PERP_SIZE_USD), 70)
  ELSE IF fc < MIN_PERP_SIZE_USD /\ ctx.agentBalance > 5000
    THEN Decision("DEPOSIT_TO_DRIFT", Min((ctx.agentBalance * 3) \div 10, 10000), 0, 65)
  ELSE TreasuryRules(ctx, m)

makeRuleBasedDecision(ctx) ==
  LET m == Momentum(ctx.priceHistory)
      pos == ctx.driftPosition
      hasPos == pos.direction # "null"
      fc == ctx.freeCollateral
      closeAction == IF pos.direction = "LONG" THEN "CLOSE_LONG" ELSE "CLOSE_SHORT"
  IN
  IF ~ctx.driftAvailable THEN TreasuryRules(ctx, m)
  ELSE IF hasPos /\ pos.direction = "LONG" /\ (ctx.solChange24h < -30 \/ MomBelow(m, 4))
    THEN Decision("CLOSE_LONG", 0, 0, 75)
  ELSE IF hasPos /\ pos.direction = "SHORT" /\ (ctx.solChange24h > 30 \/ MomAbove(m, 4))
    THEN Decision("CLOSE_SHORT", 0, 0, 75)
  ELSE IF hasPos /\ pos.unrealizedPnl * 100 > CollateralOr10(fc) * 8
    THEN Decision(closeAction, 0, 0, 70)
  ELSE IF hasPos /\ pos.unrealizedPnl * 100 < -(CollateralOr10(fc) * 10)
    THEN Decision(closeAction, 0, 0, 65)
  ELSE IF ~hasPos /\ fc >= MIN_PERP_SIZE_USD /\ (ctx.solChange24h < -40 \/ MomBelow(m, 4))
    THEN Decision("OPEN_SHORT", 0, Min(fc \div 2, MAX_PERP_SIZE_USD), 70)
  ELSE IF ~hasPos /\ fc >= MIN_PERP_SIZE_USD /\ (ctx.solChange24h > 40 \/ MomAbove(m, 4))
    THEN Decision("OPEN_LONG", 0, Min(fc \div 2, MAX_PERP_SIZE_USD), 70)
  ELSE IF fc < MIN_PERP_SIZE_USD /\ ctx.agentBalance > 5000
    THEN Decision("DEPOSIT_TO_DRIFT", Min((ctx.agentBalance * 3) \div 10, 10000), 0, 65)
  ELSE TreasuryRules(ctx, m)

\* ---------------------------------------------------------- advisor gateway
\* What the one fetch of askClaude can come to.  "ok" carries a decision that
\* JSON.parse produced; the others are the failures of lines 446-475.
AdvisorFailures == {"transport", "non2xx", "empty", "nojson", "badjson"}

\* A gateway that answers a failed advisor call with a plain HOLD.
askClaudeHoldOnFailure(ctx, ans) ==
  [ decision |-> IF ans.outcome \in AdvisorFailures
                 THEN Decision("HOLD", 0, 0, 50) ELSE ans.decision,
    fetches |-> 1,
    throws |-> FALSE ]

\* askClaude(context) for an advisor answer `ans`:
\* [outcome |-> "ok" or a failure, decision |-> the parsed object].
\* Returns the decision, the number of fetches of the advisor it issued, and
\* whether it threw.
askClaude(ctx, ans) ==
  [ decision |->
      CASE ans.outcome = "transport" -> makeRuleBasedDecision(ctx)   \* catch, line 472
        [] ans.outcome = "non2xx"    -> makeRuleBasedDecision(ctx)   \* !res.ok, line 457
        [] ans.outcome = "empty"     -> makeRuleBasedDecision(ctx)   \* !content, line 466
        [] ans.outcome = "nojson"    -> makeRuleBasedDecision(ctx)   \* !jsonMatch, line 469
        [] ans.outcome = "badjson"   -> makeRuleBasedDecision(ctx)   \* JSON.parse throws
        [] OTHER                     -> ans.decision,                \* line 471
    fetches |-> 1,
    throws |-> FALSE ]

\* ------------------------------------------------------------ input domains
\* Prices the feed can answer with, 24h changes (tenths of a percent), the
\* balance pairs (agent, treasury) and free collateral read in a cycle, and
\* the unrealized PnL the venue reports for an open position.
FeedPrices == {100, 125}
Changes24h == {-50, 50}
BalancePairs == {<<20000, 4000>>}
Collaterals == {20000}
PnlValues == {-1000, -200, 900}
\* Extra time a cycle can take on top of the fixed sleep (the awaits of a
\* cycle have no timeout): nothing, or a hold time's worth.
Lags == {0, MIN_POSITION_HOLD_MS}

\* Decisions the advisor returns in the trading loop: every action of the
\* enum and an unknown one, with a size that is missing (0), too small, or
\* above the maximum, and an amount that is missing or present.
AdvisorDecisions ==
  { [action |-> a, amount |-> 0, size_usd |-> sz, leverage |-> 0, confidence |-> 80] :
      a \in {"OPEN_LONG", "OPEN_SHORT"}, sz \in {0, 500, 20000} }
  \cup
  { [action |-> a, amount |-> 0, size_usd |-> 0, leverage |-> 0, confidence |-> 80] :
      a \in {"CLOSE_LONG", "CLOSE_SHORT", "HOLD"} }
  \cup
  { [action |-> a, amount |-> 3000, size_usd |-> 0, leverage |-> 0, confidence |-> 80] :
      a \in {"ALLOCATE_TO_TREASURY", "WITHDRAW_FROM_TREASURY", "REBALANCE",
             "DEPOSIT_TO_DRIFT", "BOGUS"} }

AdvisorAnswers ==
  { [outcome |-> "ok", decision |-> d] : d \in AdvisorDecisions }
  \cup
  { [outcome |-> f, decision |-> Decision("HOLD", 0, 0, 0)] : f \in AdvisorFailures }

\* ------------------------------------------------------------------- state
VARIABLES
  pc,               \* where main()/tradingCycle() stands
  now,              \* Date.now()
  loopI,            \* the loop index i of main()
  state,            \* the Agent State object
  disk,             \* the contents of STATE_FILE
  dashboard,        \* state.cycle of the last dashboard write, 0 if none
  lastGoodPrice,    \* module variable of getSOLPrice
  driftAvailable,   \* module variable of getDrift
  vPos,             \* the venue's net SOL-PERP position, signed
  vOrders,          \* the venue's open orders
  cyc,              \* the locals of the running cycle
  hist,             \* history variables about the venue (not program state)
  adv,              \* the advisor gateway exercised on its own
  probe,            \* the price provider / the router exercised on their own
  faults            \* number of failures injected so far

vars == <<pc, now, loopI, state, disk, dashboard, lastGoodPrice, driftAvailable,
          vPos, vOrders, cyc, hist, adv, probe, faults>>

HOLD_RESULT == [txSig |-> "null", action |-> "HOLD", amount |-> 0]
\* A failure result that keeps a transaction reference.
FailedWithTx == [txSig |-> "sig", action |-> "FAILED", amount |-> 0]
FAILED_RESULT == [txSig |-> "null", action |-> "FAILED", amount |-> 0]

\* loadState() with no state file.
FreshState ==
  [ prices |-> <<>>, trades |-> <<>>, cycle |-> 0,
    totalTransactions |-> 0, totalVolumeUSDC |-> 0,
    realizedPnL |-> 0, strategyPnL |-> 0,
    currentOpenOracle |-> NULL, currentOpenDirection |-> "null",
    currentOpenSize |-> NULL,
    lastPositionOpenTime |-> NULL, lastPositionCloseTime |-> NULL ]

NoDecision == Decision("none", 0, 0, 0)
NoResult == [txSig |-> "null", action |-> "none", amount |-> 0]
NoDriftInfo == [available |-> FALSE, position |-> NoPosition, freeCollateral |-> 0]

\* The locals of tradingCycle/executeTrade between two steps, and what the
\* cycle did to the backends so far.
IdleCycle ==
  [ solPrice |-> 0, change24h |-> 0, oraclePrice |-> 0,
    agentBalance |-> 0, treasuryBalance |-> 0,
    driftInfo |-> NoDriftInfo,
    decision |-> NoDecision,
    advisorOutcome |-> "none",
    guard |-> "none",
    pendAction |-> "none", pendAmount |-> 0,
    result |-> NoResult,
    cleanup |-> <<>>,        \* mutating calls of the stale-order cleanup
    calls |-> <<>>,          \* mutating backend calls of executeTrade, in order
    threw |-> {},            \* the calls that threw
    closeHold |-> NULL,      \* age of the venue position when a close order was sent
    stacked |-> FALSE,       \* an open order was sent in the direction already held
    posBefore |-> 0,         \* the venue position when executeTrade started
    recorded |-> FALSE,
    pre |-> FreshState ]     \* the Agent State when the cycle started

NoHist ==
  [ openedAt |-> NULL,       \* when the venue position came into being
    closedAt |-> NULL,       \* when the venue last went flat
    entryRef |-> 0,          \* reference price when the position came into being
    reopenGap |-> NULL,      \* at the last opening: time since the last close
    idealPnL |-> 0,          \* sum over closed positions of (P2 - P1) * S, signed
    clean |-> TRUE ]         \* no position was stacked or partly reduced

NoAdv == [ctx |-> [agentBalance |-> 0, treasuryBalance |-> 0, solChange24h |-> 0,
                   priceHistory |-> <<>>, driftAvailable |-> FALSE,
                   driftPosition |-> NoPosition, freeCollateral |-> 0],
          outcome |-> "none", decision |-> NoDecision, fetches |-> 0, throws |-> FALSE]

\* Nothing exercised on its own yet.
NoProbe == [kind |-> "none"]

Init ==
  /\ pc = "idle"
  /\ now = 1000000
  /\ loopI = 0
  /\ state = FreshState
  /\ disk = FreshState
  /\ dashboard = 0
  /\ lastGoodPrice = NULL
  /\ driftAvailable \in BOOLEAN
  /\ vPos = 0
  /\ vOrders = {}
  /\ cyc = IdleCycle
  /\ hist = NoHist
  /\ adv = NoAdv
  /\ probe = NoProbe
  /\ faults = 0

\* ------------------------------------------------------------ market data
\* getSOLPrice(): feed is the price the fetch answered with, or NULL when the
\* fetch failed.  Returns the reading and the new lastGoodPrice.
getSOLPriceRelativeToReading(feed, change, lastGood) ==
  IF feed = NULL
  THEN IF Truthy(lastGood)
       THEN [price |-> lastGood, change24h |-> 0, lastGoodPrice |-> lastGood]
       ELSE [price |-> 0, change24h |-> 0, lastGoodPrice |-> lastGood]
  ELSE IF Truthy(lastGood) /\ Abs(feed - lastGood) * 100 > 30 * feed
       THEN [price |-> lastGood, change24h |-> change, lastGoodPrice |-> lastGood]
       ELSE [price |-> feed, change24h |-> change, lastGoodPrice |-> feed]

getSOLPriceMadeUp(feed, change, lastGood) ==
  IF feed = NULL
  THEN [price |-> 200, change24h |-> 0, lastGoodPrice |-> lastGood]
  ELSE IF Truthy(lastGood) /\ Abs(feed - lastGood) * 100 > 30 * lastGood
       THEN [price |-> lastGood, change24h |-> change, lastGoodPrice |-> lastGood]
       ELSE [price |-> feed, change24h |-> change, lastGoodPrice |-> feed]

getSOLPrice(feed, change, lastGood) ==
  IF feed = NULL
  THEN IF Truthy(lastGood)
       THEN [price |-> lastGood, change24h |-> 0, lastGoodPrice |-> lastGood]
       ELSE [price |-> 0, change24h |-> 0, lastGoodPrice |-> lastGood]
  ELSE IF Truthy(lastGood) /\ Abs(feed - lastGood) * 100 > 30 * lastGood
       THEN [price |-> lastGood, change24h |-> change, lastGoodPrice |-> lastGood]
       ELSE [price |-> feed, change24h |-> change, lastGoodPrice |-> feed]

\* ------------------------------------------------------------------- venue
DirOf(p) == IF p > 0 THEN "LONG" ELSE IF p < 0 THEN "SHORT" ELSE "null"
Sign(d) == IF d = "LONG" THEN 1 ELSE -1

\* getAccountInfo().position for the venue position p with unrealized PnL pnl.
PositionOf(p, pnl) ==
  IF p = 0 THEN NoPosition
  ELSE [direction |-> DirOf(p), baseAmount |-> p, unrealizedPnl |-> pnl]

\* getDriftInfo(): the snapshot of the cycle; infoThrows is getAccountInfo or
\* getOpenOrders throwing, which the catch turns into an empty snapshot.
getDriftInfo(avail, infoThrows, p, pnl, fc) ==
  IF ~avail THEN NoDriftInfo
  ELSE IF infoThrows
       THEN [available |-> TRUE, position |-> NoPosition, freeCollateral |-> 0]
       ELSE [available |-> TRUE, position |-> PositionOf(p, pnl), freeCollateral |-> fc]

\* The order openPosition(direction, sizeUsd, leverage) places at oracle price.
OpenOrder(direction, sizeUsd, leverage, oraclePrice) ==
  [kind |-> "open", side |-> direction, base |-> sizeUsd \div oraclePrice,
   leverage |-> leverage]

\* The reduce-only order closePosition() places against the position p # 0.
CloseOrder(p) ==
  [kind |-> "close", side |-> Opposite(DirOf(p)), base |-> Abs(p), leverage |-> 0]

\* The position after order o filled: a reduce-only order only ever shrinks
\* the position it is working against.
Filled(p, o) ==
  IF o.kind = "open" THEN p + Sign(o.side) * o.base
  ELSE IF p # 0 /\ DirOf(p) = Opposite(o.side)
       THEN p + Sign(o.side) * Min(o.base, Abs(p))
       ELSE p

\* ---------------------------------------------------------- anti-churn guard
CloseActions == {"CLOSE_SHORT", "CLOSE_LONG"}
OpenActions == {"OPEN_SHORT", "OPEN_LONG"}
PerpActions == OpenActions \cup CloseActions \cup {"DEPOSIT_TO_DRIFT"}
TreasuryActions == {"ALLOCATE_TO_TREASURY", "WITHDRAW_FROM_TREASURY", "REBALANCE"}

\* driftInfo.collateral || driftInfo.position.sizeUsd || 10: neither field is
\* ever set on the snapshot, so the position value is the literal 10.
PositionValue(driftInfo) == 10000

\* A guard that looks at open requests only.
GuardOpensOnly(decision, driftInfo, st, t) ==
  IF decision.action \notin OpenActions THEN "none"
  ELSE IF Truthy(st.lastPositionCloseTime) /\ t - st.lastPositionCloseTime < TRADE_COOLDOWN_MS
    THEN "cooldown"
  ELSE IF driftInfo.position.direction = (IF decision.action = "OPEN_LONG" THEN "LONG" ELSE "SHORT")
    THEN "stack"
  ELSE "none"

\* The guard with the spread tolerance looked at before the hold time.
GuardSpreadFirst(decision, driftInfo, st, t) ==
  LET action == decision.action
      pos == driftInfo.position
      hasPos == pos.direction # "null"
      requestedDir == IF action = "OPEN_LONG" THEN "LONG" ELSE "SHORT"
  IN
  IF action \in CloseActions THEN
    IF hasPos /\ pos.unrealizedPnl < 0
       /\ Abs(pos.unrealizedPnl) * 100 <= PositionValue(driftInfo) * SPREAD_TOLERANCE_PCT
      THEN "spread"
    ELSE IF Truthy(st.lastPositionOpenTime) /\ t - st.lastPositionOpenTime < MIN_POSITION_HOLD_MS
      THEN "hold"
    ELSE "none"
  ELSE IF action \in OpenActions THEN
    IF Truthy(st.lastPositionCloseTime) /\ t - st.lastPositionCloseTime < TRADE_COOLDOWN_MS
      THEN "cooldown"
    ELSE IF hasPos /\ pos.direction = requestedDir
      THEN "stack"
    ELSE "none"
  ELSE "none"

\* The guard that stops executeTrade, or "none".
Guard(decision, driftInfo, st, t) ==
  LET action == decision.action
      pos == driftInfo.position
      hasPos == pos.direction # "null"
      requestedDir == IF action = "OPEN_LONG" THEN "LONG" ELSE "SHORT"
  IN
  IF action \in CloseActions THEN
    IF Truthy(st.lastPositionOpenTime) /\ t - st.lastPositionOpenTime < MIN_POSITION_HOLD_MS
      THEN "hold"
    ELSE IF hasPos /\ pos.unrealizedPnl < 0
            /\ Abs(pos.unrealizedPnl) * 100 <= PositionValue(driftInfo) * SPREAD_TOLERANCE_PCT
      THEN "spread"
    ELSE "none"
  ELSE IF action \in OpenActions THEN
    IF Truthy(st.lastPositionCloseTime) /\ t - st.lastPositionCloseTime < TRADE_COOLDOWN_MS
      THEN "cooldown"
    ELSE IF hasPos /\ pos.direction = requestedDir
      THEN "stack"
    ELSE "none"
  ELSE "none"

\* Math.round(x * 100) / 100 of a non-negative amount.
RoundCents(x) == ((x + 5) \div 10) * 10

\* decision.size_usd || 5, decision.leverage || DEFAULT_LEVERAGE, clamped.
ClampSize(decision) ==
  Min(IF decision.size_usd = 0 THEN 5000 ELSE decision.size_usd, MAX_PERP_SIZE_USD)
ClampLeverage(decision) ==
  Min(IF decision.leverage = 0 THEN DEFAULT_LEVERAGE ELSE decision.leverage, 5)

\* Math.min(decision.amount || 5, agentBalance * 0.5)
DepositAmount(decision, agentBalance) ==
  Min(IF decision.amount = 0 THEN 5000 ELSE decision.amount, agentBalance \div 2)

ClampTransferToBalance(amount, balance) == Min(amount, balance)

\* The clamp of ALLOCATE_TO_TREASURY / WITHDRAW_FROM_TREASURY on the source balance.
ClampTransfer(amount, balance) ==
  Min(Min(amount, (balance * MAX_USDC_TRADE_PCT) \div 100), balance - MIN_USDC_TRADE)

\* The amount executeTrade passes to transferUSDC for a treasury action, or
\* NULL when it returns HOLD before any transfer.
TransferAmount(action, amount, agentBalance, treasuryBalance) ==
  IF action = "ALLOCATE_TO_TREASURY"
    THEN (IF ClampTransfer(amount, agentBalance) >= MIN_USDC_TRADE
          THEN RoundCents(ClampTransfer(amount, agentBalance)) ELSE NULL)
  ELSE IF action = "WITHDRAW_FROM_TREASURY"
    THEN (IF ClampTransfer(amount, treasuryBalance) >= MIN_USDC_TRADE
          THEN RoundCents(ClampTransfer(amount, treasuryBalance)) ELSE NULL)
  ELSE \* REBALANCE: |agentBalance - total / 2| = |agentBalance - treasuryBalance| / 2
       (IF Abs(agentBalance - treasuryBalance) >= 2 * MIN_USDC_TRADE
        THEN RoundCents(Abs(agentBalance - treasuryBalance) \div 2) ELSE NULL)

INFINITY == 2147483647
PRICE_HISTORY_CAP == 200
TRADE_HISTORY_CAP == 500

\* A trim that keeps the head of the list: xs.slice(0, cap).
PushCappedKeepOldest(xs, x, cap) ==
  LET ys == Append(xs, x)
  IN IF Len(ys) > cap THEN SubSeq(ys, 1, cap) ELSE ys

\* xs.push(x); if (xs.length > cap) xs = xs.slice(-cap)
PushCapped(xs, x, cap) ==
  LET ys == Append(xs, x)
  IN IF Len(ys) > cap THEN SubSeq(ys, Len(ys) - cap + 1, Len(ys)) ELSE ys

\* xs.slice(-n)
LastN(xs, n) == IF Len(xs) > n THEN SubSeq(xs, Len(xs) - n + 1, Len(xs)) ELSE xs

\* ------------------------------------------------------------ trend analysis
RECURSIVE SumSeq(_)
SumSeq(xs) == IF xs = <<>> THEN 0 ELSE Head(xs) + SumSeq(Tail(xs))

\* The steps in one direction walking back from reading i, up to the first
\* step that is flat or goes the other way.
RECURSIVE Streak(_, _, _)
Streak(xs, i, up) ==
  IF i <= 1 THEN 0
  ELSE IF (up /\ xs[i] > xs[i - 1]) \/ (~up /\ xs[i] < xs[i - 1])
    THEN 1 + Streak(xs, i - 1, up)
    ELSE 0

\* A JavaScript number that may be NaN or Infinity; value in the unit named
\* where it is used.
Num(v) == [kind |-> "num", value |-> v]
NaN == [kind |-> "nan", value |-> 0]
PlusInfinity == [kind |-> "inf", value |-> 0]

\* Math.round(a / b) for b > 0: the nearest integer, halves upwards.
RoundDiv(a, b) == (2 * a + b) \div (2 * b)

\* analyzeTrend(priceHistory) on the prices of the readings.  With S5 the
\* sum of the last five of the recent readings, SL the sum of all n of them
\* and D = S5 * n - 5 * SL, smaDiff is 20 * D / SL per cent; it is NaN when
\* the recent readings are all 0.  Strength in whole points, momentum in
\* hundredths of a per cent.
analyzeTrend(prices) ==
  IF Len(prices) < 5
  THEN [trend |-> "neutral", strength |-> Num(0), momentum |-> Num(0),
        consecutiveUp |-> 0, consecutiveDown |-> 0]
  ELSE
    LET recent == LastN(prices, 10)
        n == Len(recent)
        sl == SumSeq(recent)
        d == SumSeq(LastN(recent, 5)) * n - 5 * sl
        first == recent[1]
        last == recent[n]
        up == Streak(recent, n, TRUE)
        down == Streak(recent, n, FALSE)
    IN [ trend |-> IF sl > 0 /\ 200 * d > sl THEN "bullish"
                   ELSE IF sl > 0 /\ 200 * d < -sl THEN "bearish" ELSE "neutral",
         strength |-> IF sl = 0 THEN NaN
                      ELSE Num(Min(100, RoundDiv(400 * Abs(d) + 10 * Max(up, down) * sl, sl))),
         momentum |-> IF first = 0 THEN (IF last = 0 THEN NaN ELSE PlusInfinity)
                      ELSE Num(RoundDiv(10000 * (last - first), first)),
         consecutiveUp |-> up, consecutiveDown |-> down ]

\* The context tradingCycle builds for the advisor and the rule engine.
Context(c, st) ==
  [ agentBalance |-> c.agentBalance, treasuryBalance |-> c.treasuryBalance,
    solChange24h |-> c.change24h,
    priceHistory |-> LastN(st.prices, 20),
    driftAvailable |-> c.driftInfo.available,
    driftPosition |-> c.driftInfo.position,
    freeCollateral |-> c.driftInfo.freeCollateral,
    trendAnalysis |-> analyzeTrend(LastN(st.prices, 20)) ]

\* A cycle start without the cleanup (the agent before stale orders were
\* cancelled at the start of a cycle).
NoStaleCleanup(avail, orders) == orders

\* Step 0 of tradingCycle: the orders open at the venue after it.  With the
\* venue available, orders found open are cancelled with cancelAllOrders().
StaleCleanup(avail, orders) == IF avail /\ orders # {} THEN {} ELSE orders

\* ------------------------------------------------- tradingCycle, steps 0-3
\* state.cycle++, stale-order cleanup, the three fetches, the price push and
\* the balance reads.  An exception of the cleanup or of getSOLBalance leaves
\* tradingCycle; every other fetch has its own catch.
Fetch ==
  /\ pc = "idle"
  /\ loopI < LoopBound
  /\ LET st1 == [state EXCEPT !.cycle = @ + 1]
         c0 == [IdleCycle EXCEPT !.pre = state]
     IN
     \/ \* getOpenOrders or cancelAllOrders of the cleanup throws
        /\ driftAvailable
        /\ \E stale \in {"getOpenOrders"} \cup (IF vOrders # {} THEN {"cancelAllOrders"} ELSE {}) :
             cyc' = [c0 EXCEPT !.threw = {stale},
                               !.cleanup = IF stale = "cancelAllOrders"
                                           THEN <<"cancelAllOrders">> ELSE <<>>]
        /\ state' = st1
        /\ pc' = "caught"
        /\ faults < MaxFaults
        /\ faults' = faults + 1
        /\ UNCHANGED <<lastGoodPrice, vOrders>>
     \/ \E market \in FeedPrices, feedFails \in BOOLEAN, change \in Changes24h,
           infoThrows \in (IF driftAvailable THEN BOOLEAN ELSE {FALSE}),
           b \in BalancePairs, solBalanceThrows \in BOOLEAN :
        \E pnl \in (IF vPos = 0 \/ ~driftAvailable \/ infoThrows THEN {0} ELSE PnlValues),
           fc \in (IF ~driftAvailable \/ infoThrows THEN {0} ELSE Collaterals) :
          LET cancels == driftAvailable /\ vOrders # {}
              sol == getSOLPrice(IF feedFails THEN NULL ELSE market, change, lastGoodPrice)
              info == getDriftInfo(driftAvailable, infoThrows, vPos, pnl, fc)
              st2 == [st1 EXCEPT !.prices = PushCapped(@, sol.price, PRICE_HISTORY_CAP)]
              c1 == [c0 EXCEPT !.cleanup = IF cancels THEN <<"cancelAllOrders">> ELSE <<>>]
              n == (IF feedFails THEN 1 ELSE 0) + (IF infoThrows THEN 1 ELSE 0)
                   + (IF solBalanceThrows THEN 1 ELSE 0)
          IN
          /\ faults + n <= MaxFaults
          /\ faults' = faults + n
          /\ vOrders' = StaleCleanup(driftAvailable, vOrders)
          /\ lastGoodPrice' = sol.lastGoodPrice
          /\ state' = st2
          /\ IF solBalanceThrows
             THEN /\ cyc' = [c1 EXCEPT !.threw = {"getSOLBalance"}]
                  /\ pc' = "caught"
             ELSE /\ cyc' = [c1 EXCEPT !.solPrice = sol.price,
                                       !.change24h = sol.change24h,
                                       !.oraclePrice = market,
                                       !.agentBalance = b[1],
                                       !.treasuryBalance = b[2],
                                       !.driftInfo = info]
                  /\ pc' = "fetched"
  /\ UNCHANGED <<now, loopI, disk, dashboard, driftAvailable, vPos, hist, adv, probe>>

\* --------------------------------------------------------------- executeTrade
\* A close-first test that forgets that the snapshot may hold no position.
CloseFirstNoNullCheck(direction, driftInfo) ==
  driftInfo.position.direction # direction

\* if (driftInfo.position && driftInfo.position.direction !== direction):
\* the existing position is closed before the new one is opened.
CloseFirst(direction, driftInfo) ==
  driftInfo.position.direction # "null" /\ driftInfo.position.direction # direction

\* What executeTrade does up to its first wait, for decision d, the cycle's
\* locals c, the Agent State st, the time t, the venue position p with its
\* open orders and the time it came into being; t1 and t2 say whether the
\* close-first call and the action's own backend call throw.
ExecuteTrade(d, c, st, t, drift, p, orders, openedAt, t1, t2) ==
  LET action == d.action
      info == c.driftInfo
      hasPos == info.position.direction # "null"
      g == Guard(d, info, st, t)
      out == [ pc |-> "record", result |-> HOLD_RESULT, calls |-> <<>>, threw |-> {},
               orders |-> orders, pendAction |-> "none", pendAmount |-> 0,
               closeHold |-> NULL, stacked |-> FALSE, guard |-> g ]
      age == IF openedAt = NULL THEN NULL ELSE t - openedAt
  IN
  IF g # "none" THEN out
  ELSE IF action \in PerpActions THEN
    IF ~drift THEN out
    ELSE IF action = "DEPOSIT_TO_DRIFT" THEN
      LET depositAmt == DepositAmount(d, c.agentBalance) IN
      IF depositAmt < 1000 THEN out
      ELSE IF t2 THEN [out EXCEPT !.result = FAILED_RESULT,
                                  !.calls = <<"depositUSDC">>, !.threw = {"depositUSDC"}]
      ELSE [out EXCEPT !.result = [txSig |-> "sig", action |-> action, amount |-> depositAmt],
                       !.calls = <<"depositUSDC">>]
    ELSE IF action \in OpenActions THEN
      LET direction == IF action = "OPEN_SHORT" THEN "SHORT" ELSE "LONG"
          sizeUsd == ClampSize(d)
          leverage == ClampLeverage(d)
          closeFirst == CloseFirst(direction, info)
          closePlaced == closeFirst /\ ~t1 /\ p # 0
          calls1 == IF closeFirst /\ (t1 \/ p # 0) THEN <<"closePosition">> ELSE <<>>
          threw1 == IF closeFirst /\ t1 THEN {"closeFirst"} ELSE {}
          orders1 == IF closePlaced THEN orders \cup {CloseOrder(p)} ELSE orders
          hold1 == IF closePlaced THEN age ELSE NULL
      IN
      IF sizeUsd < MIN_PERP_SIZE_USD THEN out
      ELSE IF t2 THEN [out EXCEPT !.result = FAILED_RESULT,
                                  !.calls = Append(calls1, "openPosition"),
                                  !.threw = threw1 \cup {"openPosition"},
                                  !.orders = orders1, !.closeHold = hold1]
      ELSE [out EXCEPT !.pc = "waiting", !.result = NoResult,
                       !.calls = Append(calls1, "openPosition"),
                       !.threw = threw1,
                       !.orders = orders1 \cup {OpenOrder(direction, sizeUsd, leverage, c.oraclePrice)},
                       !.pendAction = action, !.pendAmount = sizeUsd,
                       !.closeHold = hold1,
                       !.stacked = (p # 0 /\ DirOf(p) = direction)]
    ELSE \* CLOSE_SHORT, CLOSE_LONG
      IF ~hasPos THEN out
      ELSE IF t2 THEN [out EXCEPT !.result = FAILED_RESULT,
                                  !.calls = <<"closePosition">>, !.threw = {"closePosition"}]
      ELSE IF p = 0
        THEN \* closePosition() returned null
             [out EXCEPT !.result = [txSig |-> "null", action |-> action, amount |-> d.amount]]
      ELSE [out EXCEPT !.pc = "waiting", !.result = NoResult,
                       !.calls = <<"closePosition">>,
                       !.orders = orders \cup {CloseOrder(p)},
                       !.pendAction = action,
                       \* Math.abs(result.pnl): the PnL closePosition reads when it
                       \* places the order, the reading of this cycle
                       !.pendAmount = Abs(info.position.unrealizedPnl),
                       !.closeHold = age]
  ELSE IF action = "HOLD" \/ d.amount < MIN_USDC_TRADE THEN out
  ELSE IF action \in TreasuryActions THEN
    LET amt == TransferAmount(action, d.amount, c.agentBalance, c.treasuryBalance) IN
    IF amt = NULL THEN out
    ELSE IF t2 THEN [out EXCEPT !.result = FAILED_RESULT,
                                !.calls = <<"transferUSDC">>, !.threw = {"transferUSDC"}]
    ELSE [out EXCEPT !.result = [txSig |-> "sig", action |-> action, amount |-> amt],
                     !.calls = <<"transferUSDC">>]
  ELSE \* no branch matches the action
    [out EXCEPT !.result = [txSig |-> "null", action |-> action, amount |-> d.amount]]

\* tradingCycle steps 4 and 5: ask the advisor once, run executeTrade up to
\* its return or to the start of waitForOrderFill.
DecideExecute ==
  /\ pc = "fetched"
  /\ \E ans \in AdvisorAnswers, t1 \in BOOLEAN, t2 \in BOOLEAN :
       LET asked == askClaude(Context(cyc, state), ans)
           d == asked.decision
           out == ExecuteTrade(d, cyc, state, now, driftAvailable, vPos, vOrders,
                               hist.openedAt, t1, t2)
       IN
       /\ cyc' = [cyc EXCEPT !.decision = d,
                             !.advisorOutcome = IF ans.outcome = "ok" THEN "ok" ELSE "failed",
                             !.change24h = 0,
                             !.guard = out.guard,
                             !.result = out.result,
                             !.calls = out.calls,
                             !.threw = out.threw,
                             !.pendAction = out.pendAction,
                             !.pendAmount = out.pendAmount,
                             !.closeHold = out.closeHold,
                             !.stacked = out.stacked,
                             !.posBefore = vPos]
       /\ vOrders' = out.orders
       /\ pc' = out.pc
       /\ (t1 => "closeFirst" \in out.threw)
       /\ (t2 => out.threw \ {"closeFirst"} # {})
       /\ faults + Cardinality(out.threw) <= MaxFaults
       /\ faults' = faults + Cardinality(out.threw)
  /\ UNCHANGED <<now, loopI, state, disk, dashboard, lastGoodPrice, driftAvailable,
                 vPos, hist, adv, probe>>

\* The advisor service accepts the request and never answers: the await of
\* fetch in askClaude has no timeout and nothing else settles it.
AdvisorSilent ==
  /\ pc = "fetched"
  /\ pc' = "asking"
  /\ UNCHANGED <<now, loopI, state, disk, dashboard, lastGoodPrice, driftAvailable,
                 vPos, vOrders, cyc, hist, adv, probe, faults>>

\* ------------------------------------------------------- the venue's fills
\* The reference price of the moment: the last reading pushed to state.prices.
RefPrice(st) == IF Len(st.prices) = 0 THEN 0 ELSE st.prices[Len(st.prices)]

\* The history variables after the venue position moved from p to q at time t
\* with reference price ref.
HistAfter(h, p, q, t, ref) ==
  LET closedValue == Sign(DirOf(p)) * (ref - h.entryRef) * Abs(p) IN
  IF p = q THEN h
  ELSE IF p = 0 THEN
    [h EXCEPT !.openedAt = t, !.entryRef = ref,
              !.reopenGap = IF h.closedAt = NULL THEN NULL ELSE t - h.closedAt]
  ELSE IF q = 0 THEN
    [h EXCEPT !.openedAt = NULL, !.closedAt = t, !.idealPnL = @ + closedValue]
  ELSE IF DirOf(p) # DirOf(q) THEN
    [h EXCEPT !.openedAt = t, !.closedAt = t, !.entryRef = ref, !.reopenGap = 0,
              !.idealPnL = @ + closedValue]
  ELSE [h EXCEPT !.clean = FALSE]

\* One of the venue's open orders fills (or, reduce-only with nothing left to
\* reduce, is dropped by the venue).
VenueFill ==
  /\ pc \notin {"done", "crashed"}
  /\ \E o \in vOrders :
       /\ vOrders' = vOrders \ {o}
       /\ vPos' = Filled(vPos, o)
       /\ hist' = HistAfter(hist, vPos, Filled(vPos, o), now, RefPrice(state))
  /\ UNCHANGED <<pc, now, loopI, state, disk, dashboard, lastGoodPrice, driftAvailable,
                 cyc, adv, probe, faults>>

\* ------------------------------------------------------- waitForOrderFill
\* A poll sees no open order: filled.  executeTrade returns the action.
PollFilled ==
  /\ pc = "waiting"
  /\ vOrders = {}
  /\ cyc' = [cyc EXCEPT !.result = [txSig |-> "sig", action |-> cyc.pendAction,
                                    amount |-> cyc.pendAmount]]
  /\ pc' = "record"
  /\ UNCHANGED <<now, loopI, state, disk, dashboard, lastGoodPrice, driftAvailable,
                 vPos, vOrders, hist, adv, probe, faults>>

\* getOpenOrders throws inside the wait: the catch of executeTrade returns FAILED.
PollThrows ==
  /\ pc = "waiting"
  /\ cyc' = [cyc EXCEPT !.result = FAILED_RESULT, !.threw = @ \cup {"getOpenOrders"}]
  /\ pc' = "record"
  /\ faults < MaxFaults
  /\ faults' = faults + 1
  /\ UNCHANGED <<now, loopI, state, disk, dashboard, lastGoodPrice, driftAvailable,
                 vPos, vOrders, hist, adv, probe>>

\* Every poll up to the timeout saw an open order: the loop is left.
PollTimeout ==
  /\ pc = "waiting"
  /\ vOrders # {}
  /\ now' = now + ORDER_FILL_TIMEOUT_MS
  /\ pc' = "cancelling"
  /\ UNCHANGED <<loopI, state, disk, dashboard, lastGoodPrice, driftAvailable,
                 vPos, vOrders, cyc, hist, adv, probe, faults>>

\* cancelAllOrders after the timeout; executeTrade returns HOLD with the
\* order's txSig, or FAILED when the cancel throws.
CancelOnTimeout ==
  /\ pc = "cancelling"
  /\ \E throws \in BOOLEAN :
       /\ (throws => faults < MaxFaults)
       /\ faults' = faults + (IF throws THEN 1 ELSE 0)
       /\ cyc' = [cyc EXCEPT !.result = IF throws THEN FAILED_RESULT
                                        ELSE [txSig |-> "sig", action |-> "HOLD", amount |-> 0],
                             !.calls = Append(@, "cancelAllOrders"),
                             !.threw = IF throws THEN @ \cup {"cancelAllOrders"} ELSE @]
       /\ vOrders' = IF throws THEN vOrders ELSE {}
  /\ pc' = "record"
  /\ UNCHANGED <<now, loopI, state, disk, dashboard, lastGoodPrice, driftAvailable,
                 vPos, hist, adv, probe>>

\* ------------------------------------------------- tradingCycle, steps 6-7
\* decision.size_usd / solData.price
SizeInSol(sizeUsd, price) ==
  IF price = 0 THEN (IF sizeUsd > 0 THEN INFINITY ELSE 0) ELSE sizeUsd \div price

\* The recording step with the hold timer left running after a close.
RecordedKeepsHoldTimer(st, c, r, t) ==
  LET pos == c.driftInfo.position
      hasPos == pos.direction # "null"
      hasTx == r.txSig # "null"
      trade == [cycle |-> st.cycle, action |-> r.action, amount |-> r.amount, txSig |-> r.txSig]
      s1 == [st EXCEPT !.trades = PushCapped(@, trade, TRADE_HISTORY_CAP),
                       !.totalTransactions = IF hasTx THEN @ + 1 ELSE @,
                       !.totalVolumeUSDC = IF hasTx THEN @ + r.amount ELSE @]
      s2 == IF r.action \in OpenActions /\ hasTx
            THEN [s1 EXCEPT !.lastPositionOpenTime = t,
                            !.currentOpenOracle = c.solPrice,
                            !.currentOpenDirection = IF r.action = "OPEN_LONG" THEN "LONG" ELSE "SHORT",
                            !.currentOpenSize = IF hasPos THEN Abs(pos.baseAmount)
                                                ELSE SizeInSol(c.decision.size_usd, c.solPrice)]
            ELSE s1
      oracleOpen == s2.currentOpenOracle
      dir == s2.currentOpenDirection
      size == IF Truthy(s2.currentOpenSize) THEN s2.currentOpenSize
              ELSE IF hasPos THEN Abs(pos.baseAmount) ELSE 0
      priceDiff == c.solPrice - oracleOpen
      stratPnl == IF dir = "LONG" THEN priceDiff * size ELSE -(priceDiff * size)
      s3 == IF r.action \in CloseActions /\ hasTx
            THEN [s2 EXCEPT !.lastPositionCloseTime = t,
                            !.strategyPnL = IF Truthy(oracleOpen) /\ dir # "null" /\ size > 0
                                            THEN @ + stratPnl ELSE @,
                            !.currentOpenOracle = NULL,
                            !.currentOpenDirection = "null",
                            !.currentOpenSize = NULL,
                            !.realizedPnL = @ + pos.unrealizedPnl]
            ELSE s2
  IN s3

\* The Agent State after the recording step for result r.
Recorded(st, c, r, t) ==
  LET pos == c.driftInfo.position
      hasPos == pos.direction # "null"
      hasTx == r.txSig # "null"
      trade == [cycle |-> st.cycle, action |-> r.action, amount |-> r.amount, txSig |-> r.txSig]
      s1 == [st EXCEPT !.trades = PushCapped(@, trade, TRADE_HISTORY_CAP),
                       !.totalTransactions = IF hasTx THEN @ + 1 ELSE @,
                       !.totalVolumeUSDC = IF hasTx THEN @ + r.amount ELSE @]
      s2 == IF r.action \in OpenActions /\ hasTx
            THEN [s1 EXCEPT !.lastPositionOpenTime = t,
                            !.currentOpenOracle = c.solPrice,
                            !.currentOpenDirection = IF r.action = "OPEN_LONG" THEN "LONG" ELSE "SHORT",
                            !.currentOpenSize = IF hasPos THEN Abs(pos.baseAmount)
                                                ELSE SizeInSol(c.decision.size_usd, c.solPrice)]
            ELSE s1
      oracleOpen == s2.currentOpenOracle
      dir == s2.currentOpenDirection
      size == IF Truthy(s2.currentOpenSize) THEN s2.currentOpenSize
              ELSE IF hasPos THEN Abs(pos.baseAmount) ELSE 0
      priceDiff == c.solPrice - oracleOpen
      stratPnl == IF dir = "LONG" THEN priceDiff * size ELSE -(priceDiff * size)
      s3 == IF r.action \in CloseActions /\ hasTx
            THEN [s2 EXCEPT !.lastPositionCloseTime = t,
                            !.lastPositionOpenTime = NULL,
                            !.strategyPnL = IF Truthy(oracleOpen) /\ dir # "null" /\ size > 0
                                            THEN @ + stratPnl ELSE @,
                            !.currentOpenOracle = NULL,
                            !.currentOpenDirection = "null",
                            !.currentOpenSize = NULL,
                            !.realizedPnL = @ + pos.unrealizedPnl]
            ELSE s2
  IN s3

\* A recording step that writes the dashboard before it saves the state.
RecordDashboardFirst ==
  /\ pc = "record"
  /\ state' = Recorded(state, cyc, cyc.result, now)
  /\ \E fails \in {"none", "saveState", "saveDashboardData"} :
       /\ (fails # "none" => faults < MaxFaults)
       /\ cyc' = [cyc EXCEPT !.recorded = TRUE,
                             !.threw = IF fails = "none" THEN @ ELSE @ \cup {fails}]
       /\ faults' = faults + (IF fails = "none" THEN 0 ELSE 1)
       /\ disk' = IF fails = "saveState" THEN disk ELSE state'
       /\ dashboard' = IF fails = "saveDashboardData" THEN dashboard ELSE state'.cycle
       /\ pc' = IF fails = "none" THEN "sleeping" ELSE "caught"
  /\ UNCHANGED <<now, loopI, lastGoodPrice, driftAvailable, vPos, vOrders, hist, adv, probe>>

\* Record the trade, save the state, write the dashboard.  saveState or
\* saveDashboardData throwing leaves tradingCycle.
Record ==
  /\ pc = "record"
  /\ state' = Recorded(state, cyc, cyc.result, now)
  /\ \E fails \in {"none", "saveState", "saveDashboardData"} :
       /\ (fails # "none" => faults < MaxFaults)
       /\ cyc' = [cyc EXCEPT !.recorded = TRUE,
                             !.threw = IF fails = "none" THEN @ ELSE @ \cup {fails}]
       /\ faults' = faults + (IF fails = "none" THEN 0 ELSE 1)
       /\ disk' = IF fails = "saveState" THEN disk ELSE state'
       /\ dashboard' = IF fails = "none" THEN state'.cycle ELSE dashboard
       /\ pc' = IF fails = "none" THEN "sleeping" ELSE "caught"
  /\ UNCHANGED <<now, loopI, lastGoodPrice, driftAvailable, vPos, vOrders, hist, adv, probe>>

\* ---------------------------------------------------------------- main loop
\* catch (err) { saveState(state) } of the loop; saveState is not itself
\* inside a try, so its exception leaves main().  The outage that made
\* saveState throw in the recording step may still last in the handler.
Catch ==
  /\ pc = "caught"
  /\ \E saveThrows \in BOOLEAN :
       LET lasting == "saveState" \in cyc.threw IN
       /\ (saveThrows => lasting \/ faults < MaxFaults)
       /\ faults' = faults + (IF saveThrows /\ ~lasting THEN 1 ELSE 0)
       /\ IF saveThrows
          THEN pc' = "crashed" /\ UNCHANGED disk
          ELSE pc' = "sleeping" /\ disk' = state
  /\ UNCHANGED <<now, loopI, state, dashboard, lastGoodPrice, driftAvailable,
                 vPos, vOrders, cyc, hist, adv, probe>>

\* i++ and, unless this was the last iteration, the sleep.
Sleep ==
  /\ pc = "sleeping"
  /\ loopI' = loopI + 1
  /\ IF loopI < LoopBound - 1
     THEN /\ \E lag \in Lags : now' = now + TRADE_INTERVAL_MS + lag
          /\ pc' = "idle"
     ELSE /\ pc' = "shutdown"
          /\ UNCHANGED now
  /\ cyc' = IdleCycle
  /\ UNCHANGED <<state, disk, dashboard, lastGoodPrice, driftAvailable,
                 vPos, vOrders, hist, adv, probe, faults>>

\* drift.shutdown() and the end of main().
Shutdown ==
  /\ pc = "shutdown"
  /\ pc' = "done"
  /\ UNCHANGED <<now, loopI, state, disk, dashboard, lastGoodPrice, driftAvailable,
                 vPos, vOrders, cyc, hist, adv, probe, faults>>

Next ==
  \/ Fetch
  \/ DecideExecute
  \/ AdvisorSilent
  \/ VenueFill
  \/ PollFilled
  \/ PollThrows
  \/ PollTimeout
  \/ CancelOnTimeout
  \/ Record
  \/ Catch
  \/ Sleep
  \/ Shutdown

Spec == Init /\ [][Next]_vars

\* The steps the agent itself takes: Node runs a settled await's continuation
\* and an expired timer's callback as soon as the event loop is free, so a
\* step that stays possible is eventually taken.  Whether the venue fills an
\* order and whether the advisor answers is not the agent's to decide.
AgentStep ==
  \/ Fetch
  \/ DecideExecute
  \/ PollFilled
  \/ PollThrows
  \/ PollTimeout
  \/ CancelOnTimeout
  \/ Record
  \/ Catch
  \/ Sleep
  \/ Shutdown

SpecLive == Spec /\ WF_vars(AgentStep)

\* ------------------------------------------- the advisor gateway on its own
\* Contexts askClaude is exercised on: balances around the trade minimum and
\* the deposit threshold, 24h changes around the +/-3% and +/-4% triggers,
\* price histories with momentum 0, +/-2%, +/-3% and a zero first reading,
\* positions with PnL around the take-profit and stop-loss thresholds.
CtxBalances == {0, 400, 6000, 20000}
CtxChanges == {-50, -35, 0, 35, 50}
CtxHistories == { <<>>, <<100, 100, 100>>, <<100, 101, 98>>, <<100, 99, 102>>,
                  <<100, 100, 97>>, <<100, 100, 103>>, <<0, 100, 100>>, <<0, 0, 0>> }
CtxPositions == {NoPosition}
                \cup { [direction |-> d, baseAmount |-> Sign(d) * 50, unrealizedPnl |-> pnl] :
                         d \in Directions, pnl \in {-2500, -200, 900, 1700} }
CtxCollaterals == {0, 500, 20000}

Contexts ==
  { [ agentBalance |-> a, treasuryBalance |-> t, solChange24h |-> ch,
      priceHistory |-> h, driftAvailable |-> av,
      driftPosition |-> IF av THEN p ELSE NoPosition,
      freeCollateral |-> IF av THEN fc ELSE 0 ] :
      a \in CtxBalances, t \in CtxBalances, ch \in CtxChanges, h \in CtxHistories,
      av \in BOOLEAN, p \in CtxPositions, fc \in CtxCollaterals }

\* One call of askClaude on a context, with every answer the advisor can give.
AskAdvisor ==
  /\ adv.outcome = "none"
  /\ \E ctx \in Contexts, ans \in AdvisorAnswers :
       LET asked == askClaude(ctx, ans) IN
       adv' = [ctx |-> ctx, outcome |-> ans.outcome, decision |-> asked.decision,
               fetches |-> asked.fetches, throws |-> asked.throws]
  /\ UNCHANGED <<pc, now, loopI, state, disk, dashboard, lastGoodPrice, driftAvailable,
                 vPos, vOrders, cyc, hist, probe, faults>>

AdvisorNext == AskAdvisor

SpecAdvisor == Init /\ [][AdvisorNext]_vars

\* ------------------------------------------- the price provider on its own
\* getSOLPrice() called again and again, as the cycles do, against a feed that
\* answers with any reading or fails.
MaxReadings == 3
\* What the feed answers: NULL for a failed request, else the price in dollars
\* (around 100: the 30 % borders 70 and 130, just outside them, far outside).
Readings == {NULL, 0, 60, 69, 70, 100, 130, 131, 140, 200}

\* One call.  probe keeps the call (lastGoodPrice before it, the reading, what
\* was returned), every reading received so far and every value lastGoodPrice
\* has held.
PriceCall ==
  /\ probe.kind \in {"none", "price"}
  /\ \E feed \in Readings, change \in Changes24h :
       LET n == IF probe.kind = "none" THEN 0 ELSE probe.calls
           received == IF probe.kind = "none" THEN {} ELSE probe.received
           accepted == IF probe.kind = "none" THEN {} ELSE probe.accepted
           sol == getSOLPrice(feed, change, lastGoodPrice)
       IN /\ n < MaxReadings
          /\ lastGoodPrice' = sol.lastGoodPrice
          /\ probe' = [kind |-> "price", calls |-> n + 1,
                       last |-> lastGoodPrice, reading |-> feed,
                       price |-> sol.price, change24h |-> sol.change24h,
                       received |-> received \cup ({feed} \ {NULL}),
                       accepted |-> accepted \cup ({sol.lastGoodPrice} \ {NULL})]
  /\ UNCHANGED <<pc, now, loopI, state, disk, dashboard, driftAvailable,
                 vPos, vOrders, cyc, hist, adv, faults>>

PriceNext == PriceCall

SpecPrice == Init /\ [][PriceNext]_vars

\* -------------------------------------- the price provider after a real move
\* getSOLPrice() called cycle after cycle, for as long as the session lasts,
\* against a feed that at some point moves to a new level more than 30 % away
\* from the last accepted price and from then on answers every request with
\* that level.  tick is the parity of the number of calls.
MovedFar(level, last) == Abs(level - last) * 100 > 30 * last

CallBeforeMove ==
  /\ probe.kind = "none" \/ (probe.kind = "feed" /\ ~probe.moved)
  /\ \E feed \in Readings, change \in Changes24h :
       LET sol == getSOLPrice(feed, change, lastGoodPrice) IN
       /\ lastGoodPrice' = sol.lastGoodPrice
       /\ probe' = [kind |-> "feed", moved |-> FALSE, level |-> NULL, old |-> NULL,
                    price |-> sol.price,
                    tick |-> IF probe.kind = "none" THEN 1 ELSE 1 - probe.tick]
  /\ UNCHANGED <<pc, now, loopI, state, disk, dashboard, driftAvailable,
                 vPos, vOrders, cyc, hist, adv, faults>>

FeedMoves ==
  /\ probe.kind = "feed"
  /\ ~probe.moved
  /\ Truthy(lastGoodPrice)
  /\ \E level \in Readings \ {NULL, 0} :
       /\ MovedFar(level, lastGoodPrice)
       /\ probe' = [probe EXCEPT !.moved = TRUE, !.level = level, !.old = lastGoodPrice]
  /\ UNCHANGED <<pc, now, loopI, state, disk, dashboard, lastGoodPrice, driftAvailable,
                 vPos, vOrders, cyc, hist, adv, faults>>

CallAfterMove ==
  /\ probe.kind = "feed"
  /\ probe.moved
  /\ \E change \in Changes24h :
       LET sol == getSOLPrice(probe.level, change, lastGoodPrice) IN
       /\ lastGoodPrice' = sol.lastGoodPrice
       /\ probe' = [probe EXCEPT !.price = sol.price, !.tick = 1 - @]
  /\ UNCHANGED <<pc, now, loopI, state, disk, dashboard, driftAvailable,
                 vPos, vOrders, cyc, hist, adv, faults>>

RecoverNext ==
  \/ CallBeforeMove
  \/ FeedMoves
  \/ CallAfterMove

\* The loop calls getSOLPrice in every cycle: a further call is always made.
SpecRecover == Init /\ [][RecoverNext]_vars /\ WF_vars(CallAfterMove)

\* ------------------------------------------- the venue wrapper's initialization
\* initializeDrift() and shutdown() of the venue wrapper, with the wrapper's
\* functions called concurrently (each begins with await initializeDrift()).
\* JavaScript runs a call to its first await without interleaving, so a step is
\* the synchronous part of a call or the settling of one subscribe().
\* promises[i] is the promise of the i-th attempt; clients are numbered in the
\* order of construction; a caller's liveAtCall and later record what held when
\* it called; active is the set of clients constructed whose
\* subscribe() is pending or has succeeded and that were not shut down.
MaxAttempts == 3
MaxShutdowns == 1
Callers == {1, 2}

IdleCaller == [pc |-> "idle", p |-> NULL, how |-> "none", liveAtCall |-> "none",
               later |-> FALSE, ok |-> FALSE, client |-> NULL, activeAtReceipt |-> {}]

DriftModule ==
  [kind |-> "drift", driftClient |-> NULL, isInitialized |-> FALSE, initPromise |-> NULL,
   promises |-> << >>, clients |-> 0, active |-> {}, shutdowns |-> 0,
   callers |-> [c \in Callers |-> IdleCaller]]

Pending(pr) == {i \in 1..Len(pr.promises) : pr.promises[i].status = "pending"}

Live(pr) ==
  IF Pending(pr) # {} THEN "inflight"
  ELSE IF pr.active # {} THEN "succeeded"
  ELSE "none"

\* The synchronous part of initializeDrift() when neither early return applies:
\* threw = TRUE when getKeypair() or a constructor throws before the client
\* exists.  The catch block runs inside the async function, before its promise
\* is assigned to initPromise.
StartAttempt(pr, threw) ==
  IF threw
  THEN [pr EXCEPT !.promises = Append(@, [status |-> "rejected", value |-> NULL, client |-> NULL]),
                  !.initPromise = Len(pr.promises) + 1]
  ELSE [pr EXCEPT !.clients = @ + 1,
                  !.driftClient = pr.clients + 1,
                  !.active = @ \cup {pr.clients + 1},
                  !.promises = Append(@, [status |-> "pending", value |-> NULL,
                                          client |-> pr.clients + 1]),
                  !.initPromise = Len(pr.promises) + 1]

initializeDrift(c) ==
  /\ probe.kind = "drift"
  /\ probe.callers[c].pc # "waiting"
  /\ LET me == [IdleCaller EXCEPT
                 !.liveAtCall = Live(probe),
                 !.later = \A o \in Callers : probe.callers[o].pc # "waiting"] IN
     IF probe.isInitialized /\ probe.driftClient # NULL
     THEN probe' = [probe EXCEPT !.callers[c] =
                      [me EXCEPT !.pc = "got", !.how = "cached", !.ok = TRUE,
                                 !.client = probe.driftClient,
                                 !.activeAtReceipt = probe.active]]
     ELSE IF probe.initPromise # NULL
     THEN probe' = [probe EXCEPT !.callers[c] =
                      [me EXCEPT !.pc = "waiting", !.how = "joined", !.p = probe.initPromise]]
     ELSE /\ Len(probe.promises) < MaxAttempts
          /\ \E threw \in BOOLEAN :
               LET pr == StartAttempt(probe, threw) IN
               probe' = [pr EXCEPT !.callers[c] =
                           [me EXCEPT !.pc = "waiting", !.how = "started", !.p = pr.initPromise]]
  /\ UNCHANGED <<pc, now, loopI, state, disk, dashboard, lastGoodPrice, driftAvailable,
                 vPos, vOrders, cyc, hist, adv, faults>>

\* await driftClient.subscribe() resolves: the attempt returns the module's
\* driftClient as it is at that moment.
SubscribeResolves ==
  /\ probe.kind = "drift"
  /\ \E i \in Pending(probe) :
       probe' = [probe EXCEPT !.isInitialized = TRUE,
                              !.promises[i] = [@ EXCEPT !.status = "resolved",
                                                        !.value = probe.driftClient]]
  /\ UNCHANGED <<pc, now, loopI, state, disk, dashboard, lastGoodPrice, driftAvailable,
                 vPos, vOrders, cyc, hist, adv, faults>>

\* await driftClient.subscribe() rejects: the catch block clears initPromise.
SubscribeRejects ==
  /\ probe.kind = "drift"
  /\ \E i \in Pending(probe) :
       probe' = [probe EXCEPT !.initPromise = NULL,
                              !.active = @ \ {probe.promises[i].client},
                              !.promises[i] = [@ EXCEPT !.status = "rejected"]]
  /\ UNCHANGED <<pc, now, loopI, state, disk, dashboard, lastGoodPrice, driftAvailable,
                 vPos, vOrders, cyc, hist, adv, faults>>

\* A caller's await on the promise it was handed continues.
Receive(c) ==
  /\ probe.kind = "drift"
  /\ probe.callers[c].pc = "waiting"
  /\ LET q == probe.promises[probe.callers[c].p] IN
     /\ q.status # "pending"
     /\ probe' = [probe EXCEPT !.callers[c] =
                     [@ EXCEPT !.pc = "got", !.ok = (q.status = "resolved"),
                               !.client = q.value, !.activeAtReceipt = probe.active]]
  /\ UNCHANGED <<pc, now, loopI, state, disk, dashboard, lastGoodPrice, driftAvailable,
                 vPos, vOrders, cyc, hist, adv, faults>>

\* shutdown(), called by main after the loop, when no call is in flight.
shutdown ==
  /\ probe.kind = "drift"
  /\ probe.shutdowns < MaxShutdowns
  /\ \A c \in Callers : probe.callers[c].pc # "waiting"
  /\ probe' = IF probe.driftClient # NULL
              THEN [probe EXCEPT !.driftClient = NULL, !.isInitialized = FALSE,
                                 !.initPromise = NULL, !.active = {},
                                 !.shutdowns = @ + 1]
              ELSE [probe EXCEPT !.shutdowns = @ + 1]
  /\ UNCHANGED <<pc, now, loopI, state, disk, dashboard, lastGoodPrice, driftAvailable,
                 vPos, vOrders, cyc, hist, adv, faults>>

LoadWrapper ==
  /\ probe.kind = "none"
  /\ probe' = DriftModule
  /\ UNCHANGED <<pc, now, loopI, state, disk, dashboard, lastGoodPrice, driftAvailable,
                 vPos, vOrders, cyc, hist, adv, faults>>

DriftNext ==
  \/ LoadWrapper
  \/ \E c \in Callers : initializeDrift(c)
  \/ SubscribeResolves
  \/ SubscribeRejects
  \/ \E c \in Callers : Receive(c)
  \/ shutdown

SpecDrift == Init /\ [][DriftNext]_vars

\* ------------------------------------- a session started on a long history
\* The Agent State loadState() returns after earlier sessions: one record
\* short of the cap of the trade history, one reading short of the cap of
\* the price history.  The venue is not available in this session.
LoadedState ==
  [FreshState EXCEPT
     !.cycle = TRADE_HISTORY_CAP - 1,
     !.trades = [i \in 1..(TRADE_HISTORY_CAP - 1) |->
                   [cycle |-> i, action |-> "HOLD", amount |-> 0, txSig |-> "null"]],
     !.prices = [i \in 1..(PRICE_HISTORY_CAP - 1) |-> 90 + (i % 20)]]

InitLoaded ==
  /\ pc = "idle"
  /\ now = 1000000
  /\ loopI = 0
  /\ state = LoadedState
  /\ disk = LoadedState
  /\ dashboard = LoadedState.cycle
  /\ lastGoodPrice = NULL
  /\ driftAvailable = FALSE
  /\ vPos = 0
  /\ vOrders = {}
  /\ cyc = IdleCycle
  /\ hist = NoHist
  /\ adv = NoAdv
  /\ probe = NoProbe
  /\ faults = 0

\* The steps of a session without the venue (getDrift() returns null): no
\* order is ever placed, so nothing is polled, cancelled or filled.
HistoryNext ==
  \/ Fetch
  \/ DecideExecute
  \/ Record
  \/ Catch
  \/ Sleep
  \/ Shutdown

SpecHistory == InitLoaded /\ [][HistoryNext]_vars

\* ------------------------------------------------------ the start of main()
\* main() up to the loop: loadWallet(), then loadState().  The state file is
\* missing, holds the Agent State an earlier session saved, or holds bytes
\* JSON.parse rejects (content is what the earlier session had saved).
PersistedStates ==
  { [FreshState EXCEPT !.cycle = c, !.totalTransactions = n, !.totalVolumeUSDC = n * 3000,
                       !.realizedPnL = r, !.strategyPnL = r,
                       !.lastPositionOpenTime = o, !.lastPositionCloseTime = cl] :
      c \in {1, 200}, n \in {0, 7}, r \in {-1000, 0, 900},
      o \in {NULL, 900000}, cl \in {NULL, 800000} }

StateFiles ==
  {[kind |-> "missing", content |-> FreshState]}
  \cup { [kind |-> k, content |-> st] : k \in {"valid", "corrupt"}, st \in PersistedStates }

\* loadState(): the parsed file, or - the file missing, or the parse having
\* thrown into the empty catch - a fresh Agent State.
loadState(file) == IF file.kind = "valid" THEN file.content ELSE FreshState

\* credential: SOLANA_PRIVATE_KEY is set.  Without it loadWallet() throws and
\* main().catch ends the process; with it the loop is entered with whatever
\* loadState() returned.
Startup ==
  /\ probe.kind = "none"
  /\ \E credential \in BOOLEAN, file \in StateFiles :
       /\ probe' = [kind |-> "startup", credential |-> credential, file |-> file]
       /\ pc' = IF credential THEN "idle" ELSE "crashed"
       /\ state' = IF credential THEN loadState(file) ELSE state
  /\ UNCHANGED <<now, loopI, disk, dashboard, lastGoodPrice, driftAvailable,
                 vPos, vOrders, cyc, hist, adv, faults>>

StartupNext == Startup

SpecStartup == Init /\ [][StartupNext]_vars

\* ---------------------------------------------------- the router on its own
\* executeTrade() called once with any decision, any balances and any
\* snapshot, the way tradingCycle calls it, followed by the recording step
\* when it returns without waiting for a fill.
\* Balances in 1/1000 USDC: empty, below and at the minimum, around the
\* amounts where the clamp and the rounding to cents meet, and ordinary ones.
ProbeBalances == {0, 400, 1000, 1010, 1990, 2000, 2010, 4000, 20000, 20010}
\* decision.amount: missing (0), negative, around the minimum, between cents,
\* ordinary, larger than any balance.
ProbeAmounts == {-1000, 0, 499, 500, 996, 3000, 5003, 50000}
\* decision.size_usd and decision.leverage as the advisor's JSON may carry
\* them: missing or zero (0), negative, inside the range, above the maximum.
ProbeSizes == {-5000, 0, 500, 1000, 5000, 20000}
ProbeLeverages == {-3, 0, 1, 2, 5, 10}
\* The position in the snapshot and at the venue, in 1/1000 SOL.
ProbePositions == {0, 100, -100}
\* Agent State with no position tracked, and with one opened long enough ago.
TrackingState(t) ==
  [FreshState EXCEPT !.cycle = 1, !.lastPositionOpenTime = t - MIN_POSITION_HOLD_MS,
                     !.currentOpenOracle = 100, !.currentOpenDirection = "LONG",
                     !.currentOpenSize = 100]
ProbeStates(t) == {[FreshState EXCEPT !.cycle = 1], TrackingState(t)}

\* The locals of a cycle that has gathered its data: price 100, the balances
\* a and tr, the snapshot of the venue position snap with PnL pnl.
ProbeCycle(a, tr, snap, pnl) ==
  [IdleCycle EXCEPT !.solPrice = 100, !.oraclePrice = 100,
                    !.agentBalance = a, !.treasuryBalance = tr,
                    !.driftInfo = getDriftInfo(TRUE, FALSE, snap, pnl, 20000)]

\* A treasury action.
ProbeTreasury ==
  /\ probe.kind = "none"
  /\ \E action \in TreasuryActions, amt \in ProbeAmounts,
        a \in ProbeBalances, tr \in ProbeBalances :
       LET d == Decision(action, amt, 0, 80)
           c == [ProbeCycle(a, tr, 0, 0) EXCEPT !.decision = d]
           out == ExecuteTrade(d, c, state, now, driftAvailable, 0, {}, NULL, FALSE, FALSE)
       IN probe' = [kind |-> "treasury", decision |-> d,
                    agentBalance |-> a, treasuryBalance |-> tr,
                    result |-> out.result, calls |-> out.calls]
  /\ UNCHANGED <<pc, now, loopI, state, disk, dashboard, lastGoodPrice, driftAvailable,
                 vPos, vOrders, cyc, hist, adv, faults>>

\* An OPEN_* decision, with no position or with one in the other direction.
ProbeOpen ==
  /\ probe.kind = "none"
  /\ \E action \in OpenActions, sz \in ProbeSizes, lev \in ProbeLeverages,
        snap \in ProbePositions :
       LET d == [Decision(action, 0, sz, 80) EXCEPT !.leverage = lev]
           c == [ProbeCycle(20000, 4000, snap, 900) EXCEPT !.decision = d]
           out == ExecuteTrade(d, c, FreshState, now, TRUE, snap, {}, NULL, FALSE, FALSE)
       IN probe' = [kind |-> "open", decision |-> d, snapshot |-> snap,
                    result |-> out.result, calls |-> out.calls, orders |-> out.orders,
                    waiting |-> (out.pc = "waiting")]
  /\ UNCHANGED <<pc, now, loopI, state, disk, dashboard, lastGoodPrice, driftAvailable,
                 vPos, vOrders, cyc, hist, adv, faults>>

\* A CLOSE_* decision: snap is the position in the snapshot of the cycle, p
\* the position at the venue when closePosition() runs (the same, or none
\* any more).
ProbeClose ==
  /\ probe.kind = "none"
  /\ \E action \in CloseActions, amt \in {0, 3000}, snap \in ProbePositions,
        p \in ProbePositions, pnl \in PnlValues, st \in ProbeStates(now) :
       LET d == Decision(action, amt, 0, 80)
           c == [ProbeCycle(20000, 4000, snap, pnl) EXCEPT !.decision = d]
           out == ExecuteTrade(d, c, st, now, TRUE, p, {}, NULL, FALSE, FALSE)
       IN /\ p \in {0, snap}
          /\ probe' = [kind |-> "close", decision |-> d, snapshot |-> snap, venue |-> p,
                       guard |-> out.guard,
                       result |-> out.result, calls |-> out.calls, orders |-> out.orders,
                       waiting |-> (out.pc = "waiting"),
                       before |-> st,
                       after |-> IF out.pc = "waiting" THEN st
                                 ELSE Recorded(st, c, out.result, now)]
  /\ UNCHANGED <<pc, now, loopI, state, disk, dashboard, lastGoodPrice, driftAvailable,
                 vPos, vOrders, cyc, hist, adv, faults>>

\* Any decision against the anti-churn guards: every action of the enum and
\* an unknown one, the open and close timers unset, one millisecond inside
\* their window and exactly at its end, positions of 5, 10 and 20 USDC
\* notional at the price 100, losses around the spread tolerance.
GuardActions == PerpActions \cup TreasuryActions \cup {"HOLD", "BOGUS"}
GuardPositions == {0, 50, 100, -100, 200}
GuardPnls == {-1000, -500, -300, -200, 0, 900}
ProbeClock == 2 * MIN_POSITION_HOLD_MS
TimerValues(t, window) == {NULL, t - window + 1, t - window}

ProbeGuard ==
  /\ probe.kind = "none"
  /\ \E action \in GuardActions, snap \in GuardPositions, pnl \in GuardPnls,
        openTime \in TimerValues(ProbeClock, MIN_POSITION_HOLD_MS),
        closeTime \in TimerValues(ProbeClock, TRADE_COOLDOWN_MS) :
       LET d == Decision(action, 3000, 5000, 80)
           c == [ProbeCycle(20000, 4000, snap, pnl) EXCEPT !.decision = d]
           st == [FreshState EXCEPT !.cycle = 1, !.lastPositionOpenTime = openTime,
                                    !.lastPositionCloseTime = closeTime]
           out == ExecuteTrade(d, c, st, ProbeClock, TRUE, snap, {}, openTime, FALSE, FALSE)
       IN probe' = [kind |-> "guard", decision |-> d, driftInfo |-> c.driftInfo,
                    solPrice |-> c.solPrice, before |-> st, clock |-> ProbeClock,
                    guard |-> out.guard, result |-> out.result, calls |-> out.calls]
  /\ UNCHANGED <<pc, now, loopI, state, disk, dashboard, lastGoodPrice, driftAvailable,
                 vPos, vOrders, cyc, hist, adv, faults>>

RouterNext ==
  \/ ProbeTreasury
  \/ ProbeOpen
  \/ ProbeClose
  \/ ProbeGuard

SpecRouter == Init /\ [][RouterNext]_vars

\* ----------------------------------------------- the rule engine on its own
\* makeRuleBasedDecision() called once on any context, small balances
\* included.
RuleBalances == {0, 400, 1000, 1200, 6000, 10000, 20000}

RuleContexts ==
  { [ agentBalance |-> a, treasuryBalance |-> t, solChange24h |-> ch,
      priceHistory |-> h, driftAvailable |-> av,
      driftPosition |-> IF av THEN p ELSE NoPosition,
      freeCollateral |-> IF av THEN fc ELSE 0 ] :
      a \in RuleBalances, t \in RuleBalances, ch \in CtxChanges, h \in CtxHistories,
      av \in BOOLEAN, p \in CtxPositions, fc \in CtxCollaterals }

ProbeRules ==
  /\ probe.kind = "none"
  /\ \E ctx \in RuleContexts :
       probe' = [kind |-> "rules", ctx |-> ctx, decision |-> makeRuleBasedDecision(ctx)]
  /\ UNCHANGED <<pc, now, loopI, state, disk, dashboard, lastGoodPrice, driftAvailable,
                 vPos, vOrders, cyc, hist, adv, faults>>

\* The trend analyses a context can carry: of a short history, of a rising
\* one, of a falling one and of an outage.
TrendOutputs ==
  { analyzeTrend(w) : w \in { <<>>, <<100, 100, 100, 100, 101, 101>>,
                              <<101, 101, 101, 101, 100, 100>>, <<0, 0, 0, 0, 0>> } }

WithTrend(ctx, ta) ==
  [f \in DOMAIN ctx \cup {"trendAnalysis"} |-> IF f = "trendAnalysis" THEN ta ELSE ctx[f]]

\* makeRuleBasedDecision() called on two contexts that differ in the trend
\* analysis only.
ProbeRulePair ==
  /\ probe.kind = "none"
  /\ \E ctx \in Contexts, ta \in TrendOutputs, tb \in TrendOutputs :
       /\ ta # tb
       /\ probe' = [kind |-> "pair", ctx |-> ctx, trendA |-> ta, trendB |-> tb,
                    decisionA |-> makeRuleBasedDecision(WithTrend(ctx, ta)),
                    decisionB |-> makeRuleBasedDecision(WithTrend(ctx, tb))]
  /\ UNCHANGED <<pc, now, loopI, state, disk, dashboard, lastGoodPrice, driftAvailable,
                 vPos, vOrders, cyc, hist, adv, faults>>

\* A cycle decided by the rule engine and handed to executeTrade with the
\* same snapshot, on a position whose hold time has just passed.
ProbeRuleThenGuard ==
  /\ probe.kind = "none"
  /\ \E ctx \in Contexts :
       /\ ctx.driftAvailable
       /\ ctx.driftPosition # NoPosition
       /\ LET d == makeRuleBasedDecision(ctx)
              pos == ctx.driftPosition
              info == getDriftInfo(TRUE, FALSE, pos.baseAmount, pos.unrealizedPnl,
                                   ctx.freeCollateral)
              c == [ProbeCycle(ctx.agentBalance, ctx.treasuryBalance, pos.baseAmount,
                               pos.unrealizedPnl)
                      EXCEPT !.driftInfo = info, !.decision = d]
              st == TrackingState(ProbeClock)
              out == ExecuteTrade(d, c, st, ProbeClock, TRUE, pos.baseAmount, {},
                                  st.lastPositionOpenTime, FALSE, FALSE)
          IN probe' = [kind |-> "ruleguard", ctx |-> ctx, decision |-> d,
                       guard |-> out.guard, result |-> out.result, calls |-> out.calls]
  /\ UNCHANGED <<pc, now, loopI, state, disk, dashboard, lastGoodPrice, driftAvailable,
                 vPos, vOrders, cyc, hist, adv, faults>>

RulesNext ==
  \/ ProbeRules
  \/ ProbeRulePair
  \/ ProbeRuleThenGuard

SpecRules == Init /\ [][RulesNext]_vars

\* ------------------------------------------- the trend analyzer on its own
\* analyzeTrend() called once on any short window of readings, the outage
\* price 0 included, and on windows longer than the ten readings it keeps.
MaxWindow == 7
TrendPrices == {0, 100, 101}

TrendWindows ==
  UNION { [1..n -> TrendPrices] : n \in 0..MaxWindow }
  \cup { <<100, 101, 100, 0, 101, 100>> \o w : w \in [1..6 -> TrendPrices] }

ProbeTrend ==
  /\ probe.kind = "none"
  /\ \E w \in TrendWindows :
       probe' = [kind |-> "trend", prices |-> w, out |-> analyzeTrend(w), stateAfter |-> state]
  /\ UNCHANGED <<pc, now, loopI, state, disk, dashboard, lastGoodPrice, driftAvailable,
                 vPos, vOrders, cyc, hist, adv, faults>>

TrendNext == ProbeTrend

SpecTrend == Init /\ [][TrendNext]_vars

\* ================================================================ properties
\* The cycle has a decision (between the decision step and the sleep).
CycleDecided == cyc.decision.action # "none"
\* The trade record appended last.
LastTrade == state.trades[Len(state.trades)]
\* Number of occurrences of x in the sequence xs.
Count(xs, x) == Cardinality({i \in 1..Len(xs) : xs[i] = x})

\* C1 -- Hold-time invariant: every close order sent to the venue (by a
\* CLOSE_LONG/CLOSE_SHORT decision or by the close-first step of an
\* opposite-direction OPEN_*) is sent at least MIN_POSITION_HOLD_MS after the
\* position it closes came into being.
C1_HoldTimeInvariant ==
  cyc.closeHold # NULL => cyc.closeHold >= MIN_POSITION_HOLD_MS

\* C2 -- No-stacking invariant: while the venue holds a position of direction
\* D, an OPEN_<D> decision never sends an open order to the venue, also when
\* the snapshot of the cycle is the fetch-failure fallback.
C2_NoStacking == ~cyc.stacked

\* The decision of the cycle meets the condition of one of the four guards:
\* minimum hold, spread tolerance, cooldown, no stacking.
C3_Downgraded ==
  LET a == cyc.decision.action
      pos == cyc.driftInfo.position
      st == cyc.pre
  IN
  \/ /\ a \in {"CLOSE_LONG", "CLOSE_SHORT"}
     /\ \/ /\ Truthy(st.lastPositionOpenTime)
           /\ now - st.lastPositionOpenTime < MIN_POSITION_HOLD_MS
        \/ /\ pos.direction # "null"
           /\ pos.unrealizedPnl < 0
           /\ (-pos.unrealizedPnl) * 100 <= PositionValue(cyc.driftInfo) * SPREAD_TOLERANCE_PCT
  \/ /\ a \in {"OPEN_LONG", "OPEN_SHORT"}
     /\ \/ /\ Truthy(st.lastPositionCloseTime)
           /\ now - st.lastPositionCloseTime < TRADE_COOLDOWN_MS
        \/ pos.direction = (IF a = "OPEN_LONG" THEN "LONG" ELSE "SHORT")

\* C3 -- Guard idempotence: when one of the four guards downgrades the
\* decision, executeTrade returns {txSig null, HOLD, 0}, issues no mutating
\* backend call, and the trade record of the cycle is HOLD with amount 0.
C3_GuardIdempotence ==
  (CycleDecided /\ C3_Downgraded) =>
    /\ cyc.result = [txSig |-> "null", action |-> "HOLD", amount |-> 0]
    /\ cyc.calls = <<>>
    /\ cyc.recorded =>
         /\ LastTrade.cycle = state.cycle
         /\ LastTrade.action = "HOLD"
         /\ LastTrade.amount = 0
         /\ LastTrade.txSig = "null"

\* A close of a held position was downgraded and recorded.
C3_Witness ==
  /\ cyc.recorded
  /\ CycleDecided
  /\ C3_Downgraded
  /\ cyc.decision.action \in CloseActions
  /\ vPos # 0

\* C4 -- Anti-oscillation: a position never comes into being at the venue
\* less than TRADE_COOLDOWN_MS after the previous one was closed there.
C4_AntiOscillation ==
  hist.reopenGap # NULL => hist.reopenGap >= TRADE_COOLDOWN_MS

\* C5 (as stated) -- at most one mutating backend call per cycle, counting
\* transfer, deposit, open order, close order and cancel-all-orders.
C5_AtMostOneCall == Len(cyc.cleanup) + Len(cyc.calls) <= 1

\* C5 (amended) -- per cycle: at most one transfer, deposit or open order and
\* at most one close order; a close order together with an open order only
\* as close-first of an OPEN_* whose snapshot shows the opposite direction;
\* at most one cancel-all in the stale-order cleanup and one after a fill
\* timeout; four mutating calls at most.
C5_CallsPerCycle ==
  LET all == cyc.cleanup \o cyc.calls
      a == cyc.decision.action
      pos == cyc.driftInfo.position
  IN
  /\ Count(all, "transferUSDC") + Count(all, "depositUSDC") + Count(all, "openPosition") <= 1
  /\ Count(all, "closePosition") <= 1
  /\ Len(cyc.cleanup) <= 1
  /\ Count(cyc.calls, "cancelAllOrders") <= 1
  /\ Len(all) <= 4
  /\ (Count(all, "closePosition") = 1 /\ Len(cyc.calls) >= 2 /\ cyc.calls[2] # "cancelAllOrders") =>
       /\ cyc.calls[1] = "closePosition"
       /\ cyc.calls[2] = "openPosition"
       /\ a \in {"OPEN_LONG", "OPEN_SHORT"}
       /\ pos.direction = (IF a = "OPEN_LONG" THEN "SHORT" ELSE "LONG")

\* A close-first, the open order and the cancel after the fill timeout in one cycle.
C5_Witness ==
  cyc.recorded /\ cyc.calls = <<"closePosition", "openPosition", "cancelAllOrders">>

\* C6 -- At most one open position: when OPEN_<D> is executed against a
\* position of the opposite direction, the close is sent before the open and
\* after the cycle the venue holds a position of direction D only.
C6_OnlyRequestedDirection ==
  (cyc.recorded /\ cyc.result.action \in OpenActions
     /\ cyc.driftInfo.position.direction # "null") =>
    /\ cyc.calls[1] = "closePosition"
    /\ DirOf(vPos) = (IF cyc.result.action = "OPEN_LONG" THEN "LONG" ELSE "SHORT")

\* C7 -- P&L reconciliation: between cycles, with no order pending and every
\* position opened and closed whole, state.strategyPnL is the sum over the
\* positions closed at the venue of (P2 - P1) * S, signed by direction.
C7_PnLReconciliation ==
  (pc = "sleeping" /\ vOrders = {} /\ hist.clean) => state.strategyPnL = hist.idealPnL

\* What the failure semantics promise once executeTrade has returned.
C8_FailedCycle ==
  /\ cyc.result = [txSig |-> "null", action |-> "FAILED", amount |-> 0]
  /\ cyc.recorded =>
       /\ Len(state.trades) = Len(cyc.pre.trades) + 1
       /\ LastTrade.cycle = state.cycle
       /\ LastTrade.action = "FAILED"
       /\ state.lastPositionOpenTime = cyc.pre.lastPositionOpenTime
       /\ state.lastPositionCloseTime = cyc.pre.lastPositionCloseTime
       /\ state.currentOpenOracle = cyc.pre.currentOpenOracle
       /\ state.realizedPnL = cyc.pre.realizedPnL
       /\ state.strategyPnL = cyc.pre.strategyPnL
       /\ state.totalTransactions = cyc.pre.totalTransactions
       /\ state.totalVolumeUSDC = cyc.pre.totalVolumeUSDC

\* C8 (as stated) -- Failure semantics: whenever any mutating backend call
\* of the cycle threw (the close-first call included), executeTrade returns
\* FAILED and the cycle records one FAILED trade and changes no timer, PnL
\* accumulator or transaction counter.
C8_AnyCallFailure ==
  (cyc.threw \cap {"closeFirst", "closePosition", "openPosition",
                   "depositUSDC", "transferUSDC"} # {}
     /\ (pc = "record" \/ cyc.recorded)) => C8_FailedCycle

\* C8 (amended) -- Failure semantics of the decision's own mutating call
\* (transfer, deposit, open order, close order of a CLOSE_*): when it throws,
\* executeTrade returns FAILED at once, the cycle goes on to the recording
\* step, records one FAILED trade and changes no timer, PnL accumulator or
\* transaction counter.
C8_OwnCallFailure ==
  (cyc.threw \cap {"closePosition", "openPosition", "depositUSDC", "transferUSDC"} # {}) =>
    /\ pc = "record" \/ cyc.recorded
    /\ C8_FailedCycle

\* An open order that threw while a position was held, recorded as FAILED.
C8_Witness ==
  /\ cyc.recorded
  /\ "openPosition" \in cyc.threw
  /\ LastTrade.action = "FAILED"
  /\ vPos # 0

\* C9 -- A bad cycle never ends the session: no exception of a cycle leaves
\* main(), and the loop ends only after the configured number of cycles.
C9_SessionSurvives ==
  /\ pc # "crashed"
  /\ pc \in {"shutdown", "done"} => loopI = LoopBound

\* C10 -- Advisor fallback equivalence: for every context and every way the
\* advisor call fails, askClaude returns exactly makeRuleBasedDecision of the
\* same context, does not throw, and fetched the advisor once.
C10_FallbackEquivalence ==
  adv.outcome \in AdvisorFailures =>
    /\ adv.decision = makeRuleBasedDecision(adv.ctx)
    /\ adv.fetches = 1
    /\ ~adv.throws

\* A failed advisor call answered with a trading decision of the rule engine.
C10_Witness ==
  /\ adv.outcome = "nojson"
  /\ adv.decision = makeRuleBasedDecision(adv.ctx)
  /\ adv.decision.action \in OpenActions


\* C11: a cycle whose advisor request is never answered leaves the deciding
\* step after a bounded wait (and goes on with the rule-based decision).
C11_BoundedAdvisorWait == (pc = "asking") ~> (pc # "asking")

\* C12: main() starts at most MAX_CYCLES cycles, starts none once it has
\* reached the shutdown, and - unless a backend call never settles - the
\* process eventually passes the shutdown and ends.
NoCycleAfterShutdown ==
  pc \in {"shutdown", "done"} => pc' \in {"shutdown", "done"} /\ state' = state

C12_Termination ==
  /\ [](state.cycle <= LoopBound /\ loopI <= LoopBound)
  /\ [][NoCycleAfterShutdown]_vars
  /\ <>(pc = "done" \/ pc = "asking")

\* C13: a cycle whose price is the sentinel 0 (no usable price) makes no
\* mutating backend call and ends with the result HOLD, whatever was decided.
C13_NoTradeWithoutPrice ==
  (CycleDecided /\ cyc.solPrice = 0) =>
    /\ cyc.calls = <<>>
    /\ cyc.result = HOLD_RESULT

\* C14: with a last accepted price L > 0, a reading p more than 30 % away
\* from L (|p - L| / L > 0.30) is rejected: getSOLPrice returns L and the last
\* accepted price stays L.  Any other reading is returned and becomes the
\* last accepted price.
C14_PriceSanityFilter ==
  (probe.kind = "price" /\ probe.reading # NULL /\ probe.last > 0) =>
    LET L == probe.last
        p == probe.reading
        tooFar == IF p >= L THEN 10 * (p - L) > 3 * L ELSE 10 * (L - p) > 3 * L
    IN IF tooFar
       THEN probe.price = L /\ lastGoodPrice = L
       ELSE probe.price = p /\ lastGoodPrice = p

\* L = 100 and p = 140: 100 is returned.
C14_Witness ==
  /\ probe.kind = "price"
  /\ probe.last = 100
  /\ probe.reading = 140
  /\ probe.price = 100
  /\ lastGoodPrice = 100

\* C15: when the feed request fails getSOLPrice returns the last accepted
\* price with a 24 h change of 0, or the sentinel 0 when nothing was accepted
\* yet; and whatever the sequence of answers and failures, a non-zero price
\* it returns was received from the feed and accepted.
C15_OutageFallback ==
  probe.kind = "price" =>
    /\ probe.reading = NULL =>
         /\ probe.change24h = 0
         /\ probe.price = IF probe.accepted \ {0} # {} THEN probe.last ELSE 0
    /\ probe.price # 0 =>
         /\ probe.price \in probe.received
         /\ probe.price \in probe.accepted

\* A failed request answered with the price accepted before it.
C15_Witness ==
  /\ probe.kind = "price"
  /\ probe.reading = NULL
  /\ probe.calls = 3
  /\ probe.price = 130
  /\ probe.received = {100, 130}

\* The account a treasury action takes the money from.
SourceBalance ==
  IF probe.decision.action = "ALLOCATE_TO_TREASURY" THEN probe.agentBalance
  ELSE IF probe.decision.action = "WITHDRAW_FROM_TREASURY" THEN probe.treasuryBalance
  ELSE Max(probe.agentBalance, probe.treasuryBalance)

\* C16 -- Balance non-negativity: whatever the treasury action, the amount
\* requested and the two balances, the amount passed to the ledger transfer
\* (rounded to cents) is at most the source balance minus MIN_USDC_TRADE.
C16_BalanceNonNegativity ==
  (probe.kind = "treasury" /\ probe.calls # <<>>) =>
    /\ probe.calls = <<"transferUSDC">>
    /\ probe.result.amount > 0
    /\ probe.result.amount <= SourceBalance - MIN_USDC_TRADE

\* A transfer whose amount was rounded up to the cent and takes the source
\* down to exactly the reserve.
C16_Witness ==
  /\ probe.kind = "treasury"
  /\ probe.decision.action = "REBALANCE"
  /\ probe.agentBalance = 1010
  /\ probe.treasuryBalance = 0
  /\ probe.calls = <<"transferUSDC">>
  /\ probe.result.amount = 510

\* C17 -- Treasury clamp: for ALLOCATE_TO_TREASURY, WITHDRAW_FROM_TREASURY and
\* REBALANCE the amount transferred is min(requested, 25 % of the source
\* balance, source balance - MIN_USDC_TRADE), to the cent; when that is
\* below MIN_USDC_TRADE the result is HOLD and no ledger call is made.
C17_TreasuryClamp ==
  probe.kind = "treasury" =>
    LET requested == probe.decision.amount
        clamped == Min(requested, Min((SourceBalance * 25) \div 100,
                                      SourceBalance - MIN_USDC_TRADE))
    IN IF clamped < MIN_USDC_TRADE
       THEN probe.result = HOLD_RESULT /\ probe.calls = <<>>
       ELSE /\ probe.calls = <<"transferUSDC">>
            /\ probe.result.action = probe.decision.action
            /\ probe.result.amount = RoundCents(clamped)

\* C18 -- Open clamp: whatever size_usd and leverage the advisor's decision
\* carries, an open order sent to the venue has a size between
\* MIN_PERP_SIZE_USD and MAX_PERP_SIZE_USD and a leverage between 1 and 5; a
\* clamped size below the minimum gives HOLD with no venue call.
C18_OpenClamp ==
  probe.kind = "open" =>
    /\ \A o \in probe.orders :
         o.kind = "open" =>
           /\ o.base * 100 >= MIN_PERP_SIZE_USD
           /\ o.base * 100 <= MAX_PERP_SIZE_USD
           /\ 1 <= o.leverage /\ o.leverage <= 5
    /\ ClampSize(probe.decision) < MIN_PERP_SIZE_USD =>
         probe.result = HOLD_RESULT /\ probe.calls = <<>>

\* C19 -- Close without a position: a CLOSE_* decision with no position in
\* the snapshot, or none at the venue when the close is attempted, gives the
\* result and the trade record HOLD (no txSig, amount 0) and changes no
\* timer, PnL accumulator or position-tracking field.
C19_CloseWithoutPosition ==
  (probe.kind = "close" /\ probe.guard = "none"
     /\ (probe.snapshot = 0 \/ probe.venue = 0)) =>
    LET trade == probe.after.trades[Len(probe.after.trades)] IN
    /\ ~probe.waiting
    /\ probe.result = HOLD_RESULT
    /\ trade.action = "HOLD" /\ trade.txSig = "null" /\ trade.amount = 0
    /\ [probe.after EXCEPT !.trades = <<>>] = [probe.before EXCEPT !.trades = <<>>]

\* The position-tracking fields and the hold/cooldown timers of Agent State.
Tracking(st) ==
  <<st.currentOpenOracle, st.currentOpenDirection, st.currentOpenSize,
    st.lastPositionOpenTime, st.lastPositionCloseTime>>

\* C20 -- Unfilled order leaves no position change: when waitForOrderFill
\* gives up after ORDER_FILL_TIMEOUT_MS and cancels, the cycle ends with the
\* venue position it started executeTrade with and with the tracking fields
\* and timers of Agent State unchanged, however the venue's fill interleaves
\* with the last poll and the cancel.
C20_UnfilledNoChange ==
  (cyc.recorded /\ cyc.result = [txSig |-> "sig", action |-> "HOLD", amount |-> 0]) =>
    /\ "cancelAllOrders" \in {cyc.calls[i] : i \in 1..Len(cyc.calls)}
    /\ vOrders = {}
    /\ vPos = cyc.posBefore
    /\ Tracking(state) = Tracking(cyc.pre)

\* C21 -- Stale order cleanup ordering: with the venue available, the orders
\* still open from earlier cycles are cancelled before the snapshot is taken
\* and the decision made: when the decision of a cycle is about to be
\* executed no order is open at the venue, and the snapshot shows the
\* position the venue holds.
C21_StaleOrdersCancelledFirst ==
  (pc = "fetched" /\ driftAvailable) =>
    /\ vOrders = {}
    /\ cyc.driftInfo.position.direction # "null" =>
         cyc.driftInfo.position.baseAmount = vPos

\* A cycle that found an order of the cycle before still open (left there
\* by a failed wait) and has cancelled it.
C21_Witness ==
  /\ pc = "fetched"
  /\ driftAvailable
  /\ cyc.cleanup = <<"cancelAllOrders">>
  /\ state.cycle = 2
  /\ LastTrade.action = "FAILED"

\* C22 -- Corrupt state is fatal before the loop: with a state file that
\* exists and cannot be parsed, or with the credential missing, the process
\* aborts before any cycle; the loop is never entered with the persisted
\* counters, PnL accumulators and timers replaced by fresh values.
C22_CorruptStateIsFatal ==
  (probe.kind = "startup" /\ (probe.file.kind = "corrupt" \/ ~probe.credential)) =>
    pc = "crashed"

\* A step that changes the dashboard is the end of a cycle that completed:
\* the state was persisted in the same step and the dashboard shows it.
DashboardFrame ==
  dashboard' # dashboard =>
    /\ pc = "record" /\ pc' = "sleeping"
    /\ disk' = state'
    /\ dashboard' = state'.cycle

\* C23 -- Dashboard frame: the dashboard is written only at the end of a
\* cycle that completed without exception, after Agent State was persisted;
\* a cycle that aborts leaves the dashboard as the last completed cycle
\* wrote it.
C23_DashboardFrame == [][DashboardFrame]_vars

\* Cycle 2 aborted in its last step, after the state was saved: the
\* dashboard still shows cycle 1.
C23_Witness ==
  /\ pc = "caught"
  /\ "saveDashboardData" \in cyc.threw
  /\ state.cycle = 2
  /\ disk.cycle = 2
  /\ dashboard = 1

\* new is old with one element appended and, beyond cap elements, the oldest
\* ones dropped: what was kept is untouched and in its order.
IsPush(old, new, cap) ==
  /\ Len(new) = Min(Len(old) + 1, cap)
  /\ \A i \in 1..(Len(new) - 1) : new[i] = old[i + Len(old) - (Len(new) - 1)]

\* The records the running cycle has put into the trade history.
ThisCycleRecords == {i \in 1..Len(state.trades) : state.trades[i].cycle = state.cycle}

HistoryBounded ==
  /\ Len(state.trades) <= TRADE_HISTORY_CAP
  /\ Len(state.prices) <= PRICE_HISTORY_CAP

HistoryStep ==
  /\ state'.trades # state.trades =>
       /\ pc = "record"
       /\ IsPush(state.trades, state'.trades, TRADE_HISTORY_CAP)
       /\ state'.trades[Len(state'.trades)].cycle = state.cycle
  /\ state'.prices # state.prices =>
       /\ pc = "idle"
       /\ IsPush(state.prices, state'.prices, PRICE_HISTORY_CAP)

\* A cycle that completed: its one record is the last of the history.
OneRecordWhenCompleted ==
  (pc = "sleeping" /\ cyc.recorded /\ cyc.threw \cap {"saveState", "saveDashboardData"} = {}) =>
    ThisCycleRecords = {Len(state.trades)}

\* A cycle that has just aborted with an exception has no record.
NoRecordWhenAborted == pc = "caught" => ThisCycleRecords = {}

\* A cycle that aborted before its recording step has no record; one that
\* aborted in the saving that follows the recording step has its one record.
RecordIffRecordingReached ==
  pc = "caught" =>
    ThisCycleRecords = (IF cyc.recorded THEN {Len(state.trades)} ELSE {})

\* C24 as stated -- the trade history is append-only and bounded: a cycle
\* that completes appends exactly one record, an aborted cycle appends none,
\* records in the history are never modified, the history holds at most the
\* 500 most recent records in their order, the price history at most the
\* 200 most recent readings.
C24_AbortedCycleAppendsNone ==
  /\ []HistoryBounded
  /\ [][HistoryStep]_vars
  /\ []OneRecordWhenCompleted
  /\ []NoRecordWhenAborted

\* C24 amended -- as above, except that only a cycle that aborts before the
\* recording step appends none: a cycle that aborts while the state or the
\* dashboard is saved has already appended its record.
C24_HistoryAppendOnlyBounded ==
  /\ []HistoryBounded
  /\ [][HistoryStep]_vars
  /\ []OneRecordWhenCompleted
  /\ []RecordIffRecordingReached

\* Two completed cycles on a history one short of its cap: the oldest record
\* and the oldest reading were dropped.
C24_Witness ==
  /\ pc = "sleeping"
  /\ state.cycle = TRADE_HISTORY_CAP + 1
  /\ Len(state.trades) = TRADE_HISTORY_CAP
  /\ state.trades[1].cycle = 2
  /\ state.trades[TRADE_HISTORY_CAP].cycle = state.cycle
  /\ Len(state.prices) = PRICE_HISTORY_CAP
  /\ state.prices[1] = 92

\* The rule-based decision for the context asked about, when the advisor
\* call failed and the rule engine answered.
RuleBased == adv.outcome \in AdvisorFailures

\* The perp rules (1)-(5) as the specification lists them, thresholds taken
\* on the free collateral itself; NoDecision when none of them fires.
ListedPerpRule(ctx) ==
  LET m == Momentum(ctx.priceHistory)
      pos == ctx.driftPosition
      fc == ctx.freeCollateral
      long == pos.direction = "LONG"
      short == pos.direction = "SHORT"
      close == IF long THEN "CLOSE_LONG" ELSE "CLOSE_SHORT"
      half == Min(fc \div 2, MAX_PERP_SIZE_USD)
  IN
  CASE long /\ (ctx.solChange24h < -30 \/ MomBelow(m, 4)) -> Decision("CLOSE_LONG", 0, 0, 75)
    [] short /\ (ctx.solChange24h > 30 \/ MomAbove(m, 4)) -> Decision("CLOSE_SHORT", 0, 0, 75)
    [] OTHER ->
       IF (long \/ short) /\ 100 * pos.unrealizedPnl > 8 * fc THEN Decision(close, 0, 0, 70)
       ELSE IF (long \/ short) /\ 100 * pos.unrealizedPnl < -(10 * fc) THEN Decision(close, 0, 0, 65)
       ELSE IF ~(long \/ short) /\ fc >= MIN_PERP_SIZE_USD
               /\ (ctx.solChange24h < -40 \/ MomBelow(m, 4))
         THEN Decision("OPEN_SHORT", 0, half, 70)
       ELSE IF ~(long \/ short) /\ fc >= MIN_PERP_SIZE_USD
               /\ (ctx.solChange24h > 40 \/ MomAbove(m, 4))
         THEN Decision("OPEN_LONG", 0, half, 70)
       ELSE IF fc < MIN_PERP_SIZE_USD /\ ctx.agentBalance > 5000
         THEN Decision("DEPOSIT_TO_DRIFT", Min((3 * ctx.agentBalance) \div 10, 10000), 0, 65)
       ELSE NoDecision

\* C25 -- Rule engine, perp rules in priority order: with the venue
\* available the rule engine returns the first of (1) close against the
\* trend, (2) take profit above 8 % of free collateral, (3) stop loss below
\* -10 % of free collateral, (4) open on a clear signal with no position and
\* free collateral >= 1, (5) deposit when free collateral < 1 and the agent
\* holds more than 5 -- for every free collateral, 0 included; when none
\* fires it returns no perp action.
C25_PerpRulesInOrder ==
  (RuleBased /\ adv.ctx.driftAvailable) =>
    LET listed == ListedPerpRule(adv.ctx) IN
    IF listed = NoDecision
    THEN adv.decision.action \notin PerpActions
    ELSE /\ adv.decision.action = listed.action
         /\ adv.decision.amount = listed.amount
         /\ adv.decision.size_usd = listed.size_usd

\* The treasury table as the specification lists it, first match winning:
\* the action and the confidence of the row that applies.  withGap adds to
\* the rebalance row that the distance to the even split exceeds the minimum
\* trade.
ListedTreasuryRow(ctx, withGap) ==
  LET m == Momentum(ctx.priceHistory)
      agent == ctx.agentBalance
      treasury == ctx.treasuryBalance
      total == agent + treasury
      bearish == ctx.solChange24h < -30 \/ MomBelow(m, 3)
      bullish == ctx.solChange24h > 30 \/ MomAbove(m, 3)
      outside == 10 * agent < 3 * total \/ 10 * agent > 7 * total
      gap == Abs(2 * agent - total) > 2 * MIN_USDC_TRADE
  IN
  IF total < 2 * MIN_USDC_TRADE THEN <<"HOLD", 50>>
  ELSE IF bearish /\ agent > MIN_USDC_TRADE THEN <<"ALLOCATE_TO_TREASURY", 70>>
  ELSE IF bullish /\ treasury > MIN_USDC_TRADE THEN <<"WITHDRAW_FROM_TREASURY", 65>>
  ELSE IF outside /\ (withGap => gap) THEN <<"REBALANCE", 60>>
  ELSE <<"HOLD", 55>>

\* The treasury fallback answered: no venue, or no perp rule fired.
TreasuryAnswered ==
  /\ probe.kind = "rules"
  /\ ~probe.ctx.driftAvailable \/ probe.decision.action \notin PerpActions

\* The scenario of the specification: agent 10, treasury 10, no venue, 24h
\* change -5 %.
ScenarioContext(ctx) ==
  /\ ctx.agentBalance = 10000
  /\ ctx.treasuryBalance = 10000
  /\ ~ctx.driftAvailable
  /\ ctx.solChange24h = -50

TreasuryTable(withGap) ==
  TreasuryAnswered =>
    /\ <<probe.decision.action, probe.decision.confidence>> = ListedTreasuryRow(probe.ctx, withGap)
    /\ ScenarioContext(probe.ctx) =>
         probe.decision = Decision("ALLOCATE_TO_TREASURY", 3000, 0, 70)

\* C26 as stated -- Rule engine, treasury fallback: HOLD (50) below twice the
\* minimum trade, ALLOCATE_TO_TREASURY (70) on a bearish trigger, WITHDRAW_
\* FROM_TREASURY (65) on a bullish trigger, REBALANCE (60) whenever the
\* agent's share is outside [30 %, 70 %], otherwise HOLD (55).
C26_RebalanceOnShareAlone == TreasuryTable(FALSE)

\* C26 -- Rule engine, treasury fallback: as above, with REBALANCE (60) when
\* the agent's share is outside [30 %, 70 %] and the agent balance is more
\* than the minimum trade away from half of the total; the scenario (agent
\* 10, treasury 10, no venue, -5 %) gives ALLOCATE_TO_TREASURY, 3, 70.
C26_TreasuryFallback == TreasuryTable(TRUE)

C26_Witness ==
  /\ probe.kind = "rules"
  /\ ScenarioContext(probe.ctx)
  /\ probe.decision.action = "ALLOCATE_TO_TREASURY"
  /\ probe.decision.amount = 3000

\* The streak reported for one direction is the run of steps in that
\* direction ending at the newest reading, cut at the first flat or opposite
\* step.
StreakIs(recent, k, up) ==
  LET n == Len(recent)
      step(i) == IF up THEN recent[i] > recent[i - 1] ELSE recent[i] < recent[i - 1]
  IN /\ k \in 0..(n - 1)
     /\ \A j \in 0..(k - 1) : step(n - j)
     /\ k < n - 1 => ~step(n - k)

\* C27 -- Trend analyzer is pure and guarded: the Agent State is untouched;
\* fewer than 5 readings give neutral, strength 0, momentum 0; otherwise the
\* trend follows the short-vs-long average difference against the +/-0.1 %
\* dead zone, the strength lies in [0, 100], and at most one of the two
\* streak counts is non-zero, each stopping at the first reversal or flat
\* step from the newest reading.
C27_TrendGuarded ==
  probe.kind = "trend" =>
    LET out == probe.out
        recent == LastN(probe.prices, 10)
        n == Len(recent)
        long == SumSeq(recent)
        short5 == SumSeq(LastN(recent, 5))
    IN
    /\ probe.stateAfter = FreshState
    /\ out = analyzeTrend(probe.prices)
    /\ IF Len(probe.prices) < 5
       THEN out.trend = "neutral" /\ out.strength = Num(0) /\ out.momentum = Num(0)
       ELSE /\ out.trend \in {"bullish", "bearish", "neutral"}
            /\ long > 0 =>
                 /\ out.trend = "bullish" <=> 1000 * (short5 * n - 5 * long) > 5 * long
                 /\ out.trend = "bearish" <=> 1000 * (short5 * n - 5 * long) < -(5 * long)
            /\ out.strength.kind = "num"
            /\ out.strength.value \in 0..100
            /\ out.consecutiveUp = 0 \/ out.consecutiveDown = 0
            /\ StreakIs(recent, out.consecutiveUp, TRUE)
            /\ StreakIs(recent, out.consecutiveDown, FALSE)

\* A pair of calls whose contexts differ in the trend analysis only and
\* whose decisions differ.
TrendChangesDecision ==
  /\ ProbeRulePair
  /\ probe'.decisionA # probe'.decisionB

\* C28 -- The trend analysis feeds the rule-based fallback: there are two
\* contexts equal in everything except context.trendAnalysis on which
\* makeRuleBasedDecision returns different decisions.
C28_TrendFeedsRules == probe.kind = "none" => ENABLED TrendChangesDecision

\* What the code does instead: the decision is the same for every trend
\* analysis the context carries.
TrendIgnored == probe.kind = "pair" => probe.decisionA = probe.decisionB

\* The four cases of the guard table on the call the probe made.
HoldCase ==
  /\ probe.decision.action \in CloseActions
  /\ probe.before.lastPositionOpenTime # NULL
  /\ probe.clock - probe.before.lastPositionOpenTime < MIN_POSITION_HOLD_MS

SpreadCase ==
  /\ probe.decision.action \in CloseActions
  /\ probe.driftInfo.position # NoPosition
  /\ probe.driftInfo.position.unrealizedPnl < 0
  /\ 100 * Abs(probe.driftInfo.position.unrealizedPnl)
       <= SPREAD_TOLERANCE_PCT * PositionValue(probe.driftInfo)

CooldownCase ==
  /\ probe.decision.action \in OpenActions
  /\ probe.before.lastPositionCloseTime # NULL
  /\ probe.clock - probe.before.lastPositionCloseTime < TRADE_COOLDOWN_MS

StackCase ==
  /\ probe.decision.action \in OpenActions
  /\ probe.driftInfo.position # NoPosition
  /\ probe.driftInfo.position.direction
       = (IF probe.decision.action = "OPEN_LONG" THEN "LONG" ELSE "SHORT")

\* C29 -- Guard decision table: executeTrade is stopped by the anti-churn
\* guard exactly when, for CLOSE_*, (a) the hold time has not passed since
\* lastPositionOpenTime or, failing that, (b) the snapshot position has a
\* loss within the spread tolerance, and, for OPEN_*, (c) the cooldown has
\* not passed since lastPositionCloseTime or, failing that, (d) the snapshot
\* position has the requested direction; a stopped call returns HOLD with no
\* venue or ledger call, and HOLD, treasury actions and DEPOSIT_TO_DRIFT are
\* never stopped.
C29_GuardDecisionTable ==
  probe.kind = "guard" =>
    /\ probe.guard = "hold" <=> HoldCase
    /\ probe.guard = "spread" <=> (~HoldCase /\ SpreadCase)
    /\ probe.guard = "cooldown" <=> CooldownCase
    /\ probe.guard = "stack" <=> (~CooldownCase /\ StackCase)
    /\ probe.guard = "none" <=> ~(HoldCase \/ SpreadCase \/ CooldownCase \/ StackCase)
    /\ probe.guard # "none" => (probe.result = HOLD_RESULT /\ probe.calls = <<>>)
    /\ probe.decision.action \notin (CloseActions \cup OpenActions) => probe.guard = "none"

\* A close whose hold time has just passed, stopped by the spread tolerance.
C29_Witness ==
  /\ probe.kind = "guard"
  /\ probe.decision.action = "CLOSE_LONG"
  /\ probe.before.lastPositionOpenTime = probe.clock - MIN_POSITION_HOLD_MS
  /\ probe.guard = "spread"
  /\ probe.result = HOLD_RESULT

\* The notional of the snapshot position at the price of the cycle.
Notional == Abs(probe.driftInfo.position.baseAmount) * probe.solPrice

\* C30 -- Spread tolerance scales with the position: a close that the hold
\* time does not stop is suppressed iff the unrealized PnL is negative and
\* its magnitude is at most SPREAD_TOLERANCE_PCT (3 %) of the notional of
\* the open position.
C30_ToleranceScalesWithNotional ==
  ( /\ probe.kind = "guard"
    /\ probe.decision.action \in CloseActions
    /\ probe.driftInfo.position # NoPosition
    /\ ~HoldCase ) =>
    ( probe.guard = "spread" <=>
        /\ probe.driftInfo.position.unrealizedPnl < 0
        /\ 100 * Abs(probe.driftInfo.position.unrealizedPnl) <= SPREAD_TOLERANCE_PCT * Notional )

\* The cycle has gone through its recording step with an executed OPEN_*.
OpenRecorded ==
  /\ cyc.recorded
  /\ cyc.result.action \in OpenActions
  /\ cyc.result.txSig # "null"

\* C31 -- Open bookkeeping: after a cycle that executed OPEN_<D> with clamped
\* size s at reference price P, the Agent State has currentOpenDirection = D,
\* currentOpenOracle = P, currentOpenSize = s / P and lastPositionOpenTime =
\* the time of that cycle, also when the advisor asked for more than
\* MAX_PERP_SIZE_USD and when an opposite position was closed first.
C31_OpenBookkeeping ==
  OpenRecorded =>
    /\ state.currentOpenDirection = (IF cyc.result.action = "OPEN_LONG" THEN "LONG" ELSE "SHORT")
    /\ state.currentOpenOracle = cyc.solPrice
    /\ state.lastPositionOpenTime = now
    /\ state.currentOpenSize = SizeInSol(ClampSize(cyc.decision), cyc.solPrice)

\* The cycle has gone through its recording step with an executed CLOSE_*.
CloseRecorded ==
  /\ cyc.recorded
  /\ cyc.result.action \in CloseActions
  /\ cyc.result.txSig # "null"

WaitEnded ==
  /\ cyc.pendAction # "none"
  /\ pc \notin {"waiting", "cancelling"}

\* C33 -- Order-fill polling is bounded with cancel-on-timeout: the wait
\* always ends by returning; either filled, after a poll saw no open order,
\* with no cancel issued, or not filled, after the timeout, with cancel-all-
\* orders issued exactly once and no order of the cycle left open.
C33_WaitReturns ==
  WaitEnded =>
    \/ /\ cyc.result = [txSig |-> "sig", action |-> cyc.pendAction, amount |-> cyc.pendAmount]
       /\ Count(cyc.calls, "cancelAllOrders") = 0
    \/ /\ cyc.result = [txSig |-> "sig", action |-> "HOLD", amount |-> 0]
       /\ Count(cyc.calls, "cancelAllOrders") = 1
       /\ vOrders = {}

\* The open-position fields of the Agent State are all set, or all unset.
TrackingSet ==
  /\ state.currentOpenDirection # "null"
  /\ state.currentOpenOracle # NULL
  /\ state.currentOpenSize # NULL
  /\ state.lastPositionOpenTime # NULL

TrackingUnset ==
  /\ state.currentOpenDirection = "null"
  /\ state.currentOpenOracle = NULL
  /\ state.currentOpenSize = NULL
  /\ state.lastPositionOpenTime = NULL

\* C34 -- Local position tracking agrees with the venue: at the end of every
\* cycle the open-position fields of the Agent State are set if and only if
\* the venue holds a position, and currentOpenDirection is the direction of
\* that position.
C34_TrackingAgreesWithVenue ==
  pc = "sleeping" =>
    IF vPos = 0 THEN TrackingUnset
    ELSE TrackingSet /\ state.currentOpenDirection = DirOf(vPos)

\* C35 -- Trade record and transaction reference agree: in the record a
\* cycle appends, the action is HOLD or FAILED if and only if the
\* transaction reference is null, and totalTransactions grows by one exactly
\* when the record is neither HOLD nor FAILED.
C35_RecordAgreesWithTxRef ==
  cyc.recorded =>
    LET idle == LastTrade.action \in {"HOLD", "FAILED"} IN
    /\ idle <=> LastTrade.txSig = "null"
    /\ state.totalTransactions = cyc.pre.totalTransactions + (IF idle THEN 0 ELSE 1)

ActionEnum ==
  {"HOLD", "FAILED"} \cup TreasuryActions \cup PerpActions

\* C36 -- Recorded actions stay in the action enum: whatever decision the
\* advisor returns, the action of the record the cycle appends is one of the
\* enum, and an unknown action is recorded as HOLD with amount 0 and causes
\* no backend call.
C36_RecordedActionInEnum ==
  cyc.recorded =>
    /\ LastTrade.action \in ActionEnum
    /\ cyc.decision.action \notin ActionEnum =>
         /\ LastTrade.action = "HOLD"
         /\ LastTrade.amount = 0
         /\ cyc.calls = <<>>

\* C37 -- Rule engine respects the position snapshot: makeRuleBasedDecision
\* never returns OPEN_* when the snapshot holds a position, never CLOSE_*
\* when it holds none, and a close names the direction of the snapshot
\* position; so executeTrade, run on the same snapshot, does not reach the
\* close-first step of an open.
C37_RulesRespectSnapshot ==
  probe.kind = "rules" =>
    LET a == probe.decision.action
        pos == probe.ctx.driftPosition
    IN
    /\ a \in OpenActions =>
         /\ pos = NoPosition
         /\ ~CloseFirst(IF a = "OPEN_LONG" THEN "LONG" ELSE "SHORT", [position |-> pos])
    /\ a \in CloseActions =>
         /\ pos # NoPosition
         /\ a = (IF pos.direction = "LONG" THEN "CLOSE_LONG" ELSE "CLOSE_SHORT")

\* A position kept through a bearish signal that would open a SHORT were
\* there none: the SHORT snapshot, no close rule firing, free collateral
\* to open with.
C37_Witness ==
  /\ probe.kind = "rules"
  /\ probe.ctx.driftAvailable
  /\ probe.ctx.driftPosition.direction = "SHORT"
  /\ probe.ctx.solChange24h = -50
  /\ probe.ctx.freeCollateral >= MIN_PERP_SIZE_USD
  /\ probe.decision.action \notin PerpActions

\* The rule engine proposed the close as a stop loss (rule 3, confidence 65).
StopLossProposed ==
  /\ probe.kind = "ruleguard"
  /\ probe.decision.action \in CloseActions
  /\ probe.decision.confidence = 65

\* C38 -- A stop-loss close is not vetoed by the spread-tolerance guard: when
\* the rule engine proposes a close because the unrealized PnL is below
\* -10 % of free collateral and the hold time has passed, executeTrade does
\* not downgrade it to HOLD on the spread tolerance, whatever the free
\* collateral and the size of the position.
C38_StopLossNotVetoed ==
  StopLossProposed =>
    /\ probe.guard # "spread"
    /\ probe.calls = <<"closePosition">>

FeedMoved == probe.kind = "feed" /\ probe.moved

Recovered ==
  /\ probe.kind = "feed"
  /\ probe.price = probe.level
  /\ lastGoodPrice = probe.level

\* C39 -- The price filter recovers after a real move: once the feed keeps
\* answering with a level more than 30 % away from the last accepted price,
\* the provider eventually returns that level and the last accepted price
\* becomes that level.
C39_FilterRecovers == FeedMoved ~> Recovered

\* At most one client is constructed and subscribed while an initialization is
\* in flight or has succeeded.
OneClient == Cardinality(probe.active) <= 1

\* A caller that was answered with a client was answered with that client.
SameClient ==
  \A c \in Callers :
    LET me == probe.callers[c] IN
    (me.pc = "got" /\ me.ok) => me.activeAtReceipt = {me.client}

\* A caller that joined or started an attempt which failed sees the failure.
SeesFailure ==
  \A c \in Callers :
    LET me == probe.callers[c] IN
    (me.pc = "got" /\ me.how # "cached") =>
      (me.ok <=> probe.promises[me.p].status = "resolved")

\* A call made when every earlier call has been answered and no initialization
\* is in flight or has succeeded (none yet, the last one failed, or shutdown has
\* run) starts a fresh attempt.
FreshAttempt ==
  \A c \in Callers :
    LET me == probe.callers[c] IN
    (me.pc # "idle" /\ me.later /\ me.liveAtCall = "none") => me.how = "started"

\* C40 -- Single venue initialization under concurrency: at most one client is
\* constructed and subscribed while an initialization is in flight or has
\* succeeded and all callers receive that client; a failure is seen by every
\* waiting caller and a later call starts a fresh attempt; after shutdown a
\* later call initializes again.
C40_SingleInitialization ==
  probe.kind = "drift" => (OneClient /\ SameClient /\ SeesFailure /\ FreshAttempt)

====
